---------------------------- MODULE Spec2Model ----------------------------
(***************************************************************************)
(* A model of the NES core of mbh-nesecutable: the 2C02 PPU                *)
(* (NES/src/Backend/2C02.c), the 6502 CPU clock (NES/src/6502.c) and the   *)
(* driver loops that interleave them (NES/src/Backend/nes.h).              *)
(*                                                                         *)
(* Integers keep the width of the C types: uint8_t values are reduced      *)
(* modulo 256 and uint16_t values modulo 65536.                            *)
(***************************************************************************)
EXTENDS Integers, Sequences, FiniteSets, TLC

(***************************************************************************)
(* Bit arithmetic on unsigned 16-bit values.                               *)
(***************************************************************************)
RECURSIVE BitAndN(_, _, _)
BitAndN(a, b, n) ==
    IF n = 0 THEN 0
    ELSE (a % 2) * (b % 2) + 2 * BitAndN(a \div 2, b \div 2, n - 1)

And16(a, b) == BitAndN(a, b, 16)

Or16(a, b) == a + b - And16(a, b)

Xor16(a, b) == a + b - 2 * And16(a, b)

Not16(a) == 65535 - a

Shl(a, n) == a * (2 ^ n)

Shr(a, n) == a \div (2 ^ n)

U8(a) == a % 256

U16(a) == a % 65536

(***************************************************************************)
(* State.                                                                  *)
(*   ppu          State2C02: registers, v/t/x/w, latches, shift registers, *)
(*                scanline, cycles, evenframe                              *)
(*   vram         the PPU bus memory, kept sparsely: the bytes written so  *)
(*                far, by normalised address                               *)
(*   pixel        the latest store into ppu->pixels: <<index, colour>>,    *)
(*                or NoPixel when the latest PPU clock stored none         *)
(*   cpu          State6502: A, X, Y, SP, PC, status, operand, addr,       *)
(*                indirect_fetch                                           *)
(*   remaining    the CPU clock's static cycle counter                     *)
(*   mem          the CPU bus memory (flat, BUS_TEST build), kept sparsely *)
(*                over a uniform image                                     *)
(*   system_clock Nes.system_clock                                         *)
(*   mode         the driver primitive the harness is in                   *)
(*   tick_log     the devices clocked by the latest master tick, in order  *)
(*   ev           what the latest step did: the call made (op), whether    *)
(*                the PPU called NMI and LoadPixelDataToScreen, the value  *)
(*                of `remaining` when NMI was called, what the CPU clock   *)
(*                did                                                      *)
(*   ret          the byte the latest read_ppu returned                    *)
(*   hist         observation counters used only to state properties       *)
(***************************************************************************)
VARIABLES ppu, vram, pixel, cpu, remaining, mem, system_clock, mode,
          tick_log, ev, ret, hist

vars == <<ppu, vram, pixel, cpu, remaining, mem, system_clock, mode,
          tick_log, ev, ret, hist>>

(***************************************************************************)
(* Program constants.                                                      *)
(***************************************************************************)
DotsPerLine == 341

LastScanline == 261

VBlankLine == 241

PowerOnStatus == 160

(***************************************************************************)
(* Register flag accessors (bit positions of the 2C02 register unions).    *)
(***************************************************************************)
Bit(r, i) == (r \div (2 ^ i)) % 2

SetBit(r, i, b) == r - Bit(r, i) * (2 ^ i) + b * (2 ^ i)

CTRL_N(r) == r % 4

CTRL_I(r) == Bit(r, 2)

CTRL_B(r) == Bit(r, 4)

CTRL_V(r) == Bit(r, 7)

MASK_b(r) == Bit(r, 3)

STATUS_V(r) == Bit(r, 7)

(***************************************************************************)
(* PALETTE_MAP: 6-bit colour -> RGB.                                       *)
(***************************************************************************)
PALETTE_MAP ==
    << <<84,84,84>>, <<0,30,116>>, <<8,16,144>>, <<48,0,136>>, <<68,0,100>>,
       <<92,0,48>>, <<84,4,0>>, <<60,24,0>>, <<32,42,0>>, <<8,58,0>>,
       <<0,64,0>>, <<0,60,0>>, <<0,50,60>>, <<0,0,0>>, <<0,0,0>>, <<0,0,0>>,
       <<152,150,152>>, <<8,76,196>>, <<48,50,236>>, <<92,30,228>>,
       <<136,20,176>>, <<160,20,100>>, <<152,34,32>>, <<120,60,0>>,
       <<84,90,0>>, <<40,114,0>>, <<8,124,0>>, <<0,118,40>>, <<0,102,120>>,
       <<0,0,0>>, <<0,0,0>>, <<0,0,0>>,
       <<236,238,236>>, <<76,154,236>>, <<120,124,236>>, <<176,98,236>>,
       <<228,84,236>>, <<236,88,180>>, <<236,106,100>>, <<212,136,32>>,
       <<160,170,0>>, <<116,196,0>>, <<76,208,32>>, <<56,204,108>>,
       <<56,180,204>>, <<60,60,60>>, <<0,0,0>>, <<0,0,0>>,
       <<236,238,236>>, <<168,204,236>>, <<188,188,236>>, <<212,178,236>>,
       <<236,174,236>>, <<236,174,212>>, <<236,180,176>>, <<228,196,144>>,
       <<204,210,120>>, <<180,222,120>>, <<168,226,144>>, <<152,226,180>>,
       <<160,214,228>>, <<160,162,160>>, <<0,0,0>>, <<0,0,0>> >>

(***************************************************************************)
(* The PPU bus (2C02_Bus.c is not part of the sources: modelled from the   *)
(* address decode of the specification, section 4.4).                      *)
(***************************************************************************)
MirrorNametable(a) ==
    \* vertical mirroring: nametable index is bit 10 of the address
    8192 + (a % 2048)

PpuBusAddr(addr) ==
    LET a == addr % 16384 IN
    IF a < 8192 THEN a
    ELSE IF a < 16128 THEN MirrorNametable(8192 + ((a - 8192) % 4096))
    ELSE LET i == a % 32 IN
         16128 + (IF i \in {16, 20, 24, 28} THEN i - 16 ELSE i)

ppu_bus_read(m, addr) ==
    LET k == PpuBusAddr(addr) IN
    IF k \in DOMAIN m THEN m[k] ELSE 0

ppu_bus_write(m, addr, data) ==
    LET k == PpuBusAddr(addr) IN
    [a \in (DOMAIN m) \cup {k} |-> IF a = k THEN data ELSE m[a]]

(***************************************************************************)
(* Scroll increments.                                                      *)
(***************************************************************************)
\* a coarse-X increment that wraps without switching the nametable
coarseXinc_mut(v) ==
    IF And16(v, 31) = 31
    THEN And16(v, Not16(31))
    ELSE U16(v + 1)

coarseXinc(v) ==
    IF And16(v, 31) = 31
    THEN Xor16(And16(v, Not16(31)), 1024)
    ELSE U16(v + 1)

\* a fine-Y increment that wraps coarse Y at 31 only
fineYinc_mut(v) ==
    IF And16(v, 28672) # 28672
    THEN U16(v + 4096)
    ELSE LET v1 == And16(v, Not16(28672))
             y  == Shr(And16(v1, 992), 5)
             y2 == IF y = 31 THEN 0 ELSE y + 1
         IN  Or16(And16(v1, Not16(992)), Shl(y2, 5))

fineYinc(v) ==
    IF And16(v, 28672) # 28672
    THEN U16(v + 4096)
    ELSE LET v1 == And16(v, Not16(28672))
             y  == Shr(And16(v1, 992), 5)
             v2 == IF y = 29 THEN Xor16(v1, 2048) ELSE v1
             y2 == IF y = 29 THEN 0 ELSE IF y = 31 THEN 0 ELSE y + 1
         IN  Or16(And16(v2, Not16(992)), Shl(y2, 5))

getNameTableAddr(v) == Or16(8192, And16(v, 4095))

getAttribTableAddr(v) ==
    Or16(Or16(Or16(9152, And16(v, 3072)), And16(Shr(v, 4), 56)),
         And16(Shr(v, 2), 7))

(***************************************************************************)
(* Background fetch, one step of the cycles % 8 sub-state.                 *)
(***************************************************************************)
fetch_data_inc_v(p, m) ==
    LET k == p.cycles % 8 IN
    CASE k = 1 ->
           [p EXCEPT !.name_tbl_byte = ppu_bus_read(m, getNameTableAddr(p.v))]
      [] k = 3 ->
           LET attrib_tbl_byte == ppu_bus_read(m, getAttribTableAddr(p.v))
               shift == 2 * (Shr(p.v, 1) % 2) + 4 * (Shr(p.v, 6) % 2)
               palatteID == Shr(attrib_tbl_byte, shift) % 4
           IN  [p EXCEPT !.pa_latch_low = IF palatteID % 2 = 1 THEN 255 ELSE 0,
                         !.pa_latch_high = IF palatteID \div 2 = 1 THEN 255 ELSE 0]
      [] k = 5 ->
           LET fine_y == Shr(p.v, 12)
               pattern_tbl_addr ==
                   U16(Or16(Or16(Shl(CTRL_B(p.PPUCTRL), 12),
                                 Shl(p.name_tbl_byte, 4)), fine_y))
           IN  [p EXCEPT !.pt_latch_low = ppu_bus_read(m, pattern_tbl_addr)]
      [] k = 7 ->
           LET fine_y == Shr(p.v, 12)
               pattern_tbl_addr ==
                   U16(Or16(Or16(Or16(Shl(CTRL_B(p.PPUCTRL), 12),
                                      Shl(p.name_tbl_byte, 4)), 8), fine_y))
           IN  [p EXCEPT !.pt_latch_high = ppu_bus_read(m, pattern_tbl_addr)]
      [] k = 0 ->
           IF p.cycles = 256
           THEN [p EXCEPT !.v = fineYinc(p.v)]
           ELSE [p EXCEPT !.v = coarseXinc(p.v)]
      [] OTHER -> p

(***************************************************************************)
(* feedShiftRegisters is declared to load the latches into the high bytes  *)
(* of the shift registers of the State2C02 it is given.  clock_2C02 calls  *)
(* it as feedShiftRegisters(&ppu), with the address of its own pointer     *)
(* argument: the four stores land in the caller's frame, so the shift      *)
(* registers of the PPU keep their values.                                 *)
(***************************************************************************)
feedShiftRegisters(p) ==
    [p EXCEPT !.pt_shift_low = Or16(And16(p.pt_shift_low, 255), Shl(p.pt_latch_low, 8)),
              !.pt_shift_high = Or16(And16(p.pt_shift_high, 255), Shl(p.pt_latch_high, 8)),
              !.pa_shift_low = Or16(And16(p.pa_shift_low, 255), Shl(p.pa_latch_low, 8)),
              !.pa_shift_high = Or16(And16(p.pa_shift_high, 255), Shl(p.pa_latch_high, 8))]

FeedCall(p) ==
    IF p.cycles % 8 = 1
       /\ ((p.cycles >= 9 /\ p.cycles <= 257) \/ (p.cycles >= 321 /\ p.cycles <= 337))
    THEN p    \* feedShiftRegisters(&ppu): applied to the pointer's own storage
    ELSE p

ShiftRight(p) ==
    [p EXCEPT !.pt_shift_low = Shr(p.pt_shift_low, 1),
              !.pt_shift_high = Shr(p.pt_shift_high, 1),
              !.pa_shift_low = Shr(p.pa_shift_low, 1),
              !.pa_shift_high = Shr(p.pa_shift_high, 1)]

CopyHorizontal(p) ==
    [p EXCEPT !.v = Or16(And16(p.v, 31712), And16(p.t, Not16(31712)))]

\* a pre-render line without the vertical copy
CopyVertical_mut(p) == p

CopyVertical(p) ==
    [p EXCEPT !.v = Or16(And16(p.v, 1055), And16(p.t, Not16(1055)))]

PreRenderLine(p, m) ==
    LET p1 == FeedCall(p)
        p2 == IF p1.cycles = 1
              THEN [p1 EXCEPT !.PPUSTATUS = SetBit(p1.PPUSTATUS, 7, 0)]
              ELSE p1
    IN  IF p2.cycles >= 1 /\ p2.cycles < 257 THEN fetch_data_inc_v(ShiftRight(p2), m)
        ELSE IF p2.cycles = 257 THEN CopyHorizontal(p2)
        ELSE IF p2.cycles >= 280 /\ p2.cycles < 305 THEN CopyVertical(p2)
        ELSE IF p2.cycles >= 321 /\ p2.cycles < 337 THEN fetch_data_inc_v(p2, m)
        ELSE p2

VisibleLine(p, m) ==
    LET p1 == FeedCall(p) IN
    IF p1.cycles >= 1 /\ p1.cycles < 257 THEN fetch_data_inc_v(ShiftRight(p1), m)
    ELSE IF p1.cycles = 257 THEN CopyHorizontal(p1)
    ELSE IF p1.cycles >= 321 /\ p1.cycles < 337 THEN fetch_data_inc_v(p1, m)
    ELSE p1

NoPixel == <<-1, <<0, 0, 0>>>>

\* a store whose index is not moved back by one
PixelStore_mut(p, m) ==
    IF MASK_b(p.PPUMASK) = 1 /\ p.scanline >= 0 /\ p.scanline < 240
       /\ p.cycles >= 1 /\ p.cycles < 257
    THEN LET shade == (Shr(p.pt_shift_low, p.x) % 2)
                      + 2 * (Shr(p.pt_shift_high, p.x) % 2)
             palatte == (Shr(p.pa_shift_low, p.x) % 2)
                        + 2 * (Shr(p.pa_shift_high, p.x) % 2)
             index == p.scanline * 256 + p.cycles
             palatte_addr == IF shade = 0 THEN 16128
                             ELSE Or16(Or16(16128, Shl(palatte, 2)), shade)
         IN  <<index, PALETTE_MAP[(ppu_bus_read(m, palatte_addr) % 64) + 1]>>
    ELSE NoPixel

\* The store into ppu->pixels made by a clock on a visible line, dots 1..256.
PixelStore(p, m) ==
    IF MASK_b(p.PPUMASK) = 1 /\ p.scanline >= 0 /\ p.scanline < 240
       /\ p.cycles >= 1 /\ p.cycles < 257
    THEN LET shade == (Shr(p.pt_shift_low, p.x) % 2)
                      + 2 * (Shr(p.pt_shift_high, p.x) % 2)
             palatte == (Shr(p.pa_shift_low, p.x) % 2)
                        + 2 * (Shr(p.pa_shift_high, p.x) % 2)
             index == p.scanline * 256 + p.cycles - 1
             palatte_addr == IF shade = 0 THEN 16128
                             ELSE Or16(Or16(16128, Shl(palatte, 2)), shade)
         IN  <<index, PALETTE_MAP[(ppu_bus_read(m, palatte_addr) % 64) + 1]>>
    ELSE NoPixel

\* a PPU that renders whatever PPUMASK.b holds
Rendering_mut(p, m) ==
    IF p.scanline = -1 THEN PreRenderLine(p, m)
    ELSE IF p.scanline >= 0 /\ p.scanline < 240 THEN VisibleLine(p, m)
    ELSE p

Rendering(p, m) ==
    IF MASK_b(p.PPUMASK) = 1
    THEN IF p.scanline = -1 THEN PreRenderLine(p, m)
         ELSE IF p.scanline >= 0 /\ p.scanline < 240 THEN VisibleLine(p, m)
         ELSE p
    ELSE p

AtVBlankStart(p) == p.scanline = VBlankLine /\ p.cycles = 1

VBlankStart(p) ==
    IF AtVBlankStart(p)
    THEN [p EXCEPT !.PPUSTATUS = SetBit(p.PPUSTATUS, 7, 1)]
    ELSE p

\* an NMI raised whatever PPUCTRL.V holds
RaisesNMI_mut(p) == AtVBlankStart(p)

\* clock_2C02 calls NMI(ppu->cpu) on this clock
RaisesNMI(p) == AtVBlankStart(p) /\ CTRL_V(p.PPUCTRL) = 1

\* a dot counter compared with > in place of ==
AdvanceDot_mut(p) ==
    LET c == p.cycles + 1 IN
    IF c > DotsPerLine
    THEN LET s == p.scanline + 1 IN
         IF s = LastScanline
         THEN [p EXCEPT !.cycles = 0, !.scanline = -1,
                        !.evenframe = 1 - p.evenframe]
         ELSE [p EXCEPT !.cycles = 0, !.scanline = s]
    ELSE [p EXCEPT !.cycles = c]

AdvanceDot(p) ==
    LET c == p.cycles + 1 IN
    IF c = DotsPerLine
    THEN LET s == p.scanline + 1 IN
         IF s = LastScanline
         THEN [p EXCEPT !.cycles = 0, !.scanline = -1,
                        !.evenframe = 1 - p.evenframe]
         ELSE [p EXCEPT !.cycles = 0, !.scanline = s]
    ELSE [p EXCEPT !.cycles = c]

clock_2C02(p, m) == AdvanceDot(VBlankStart(Rendering(p, m)))

(***************************************************************************)
(* power_on_2C02 and reset_2C02.  Neither touches v, t, x, the latches or  *)
(* the shift registers: p0 is the State2C02 as it was before the call.     *)
(***************************************************************************)
power_on_2C02(p0) ==
    [p0 EXCEPT !.PPUCTRL = 0, !.PPUMASK = 0, !.PPUSTATUS = PowerOnStatus,
               !.OAMADDR = 0, !.w = 0, !.PPUSCROLL = 0, !.PPUADDR = 0,
               !.PPUDATA = 0, !.evenframe = 0, !.scanline = -1, !.cycles = 0]

reset_2C02(p0) ==
    [p0 EXCEPT !.PPUCTRL = 0, !.PPUMASK = 0, !.w = 0, !.PPUSCROLL = 0,
               !.PPUDATA = 0, !.evenframe = 0, !.scanline = -1, !.cycles = 0]

(***************************************************************************)
(* Register file: write_ppu and read_ppu.                                  *)
(***************************************************************************)
VramIncrement(p) == IF CTRL_I(p.PPUCTRL) = 1 THEN 32 ELSE 1

\* a PPUSCROLL write that also loads fine X on the second write
write_PPUSCROLL_mut(q, data) ==
    IF q.w = 0
    THEN [q EXCEPT !.PPUSCROLL = data,
                   !.t = Or16(And16(q.t, 32736), Shr(data, 3)),
                   !.x = And16(data, 7),
                   !.w = 1]
    ELSE [q EXCEPT !.PPUSCROLL = data,
                   !.t = Or16(Or16(And16(q.t, 3103), Shl(And16(data, 7), 12)),
                              Shl(Shr(data, 3), 5)),
                   !.x = And16(data, 7),
                   !.w = 0]

\* case 0x2005: PPUSCROLL
write_PPUSCROLL(q, data) ==
    IF q.w = 0
    THEN [q EXCEPT !.PPUSCROLL = data,
                   !.t = Or16(And16(q.t, 32736), Shr(data, 3)),
                   !.x = And16(data, 7),
                   !.w = 1]
    ELSE [q EXCEPT !.PPUSCROLL = data,
                   !.t = Or16(Or16(And16(q.t, 3103), Shl(And16(data, 7), 12)),
                              Shl(Shr(data, 3), 5)),
                   !.w = 0]

\* a PPUADDR write whose first write keeps all 8 bits of the byte
write_PPUADDR_mut(q, data) ==
    IF q.w = 0
    THEN [q EXCEPT !.PPUADDR = data,
                   !.t = Or16(And16(q.t, 255), Shl(data, 8)),
                   !.w = 1]
    ELSE LET t2 == Or16(And16(q.t, 65280), data) IN
         [q EXCEPT !.PPUADDR = data, !.t = t2, !.v = t2, !.w = 0]

\* case 0x2006: PPUADDR
write_PPUADDR(q, data) ==
    IF q.w = 0
    THEN [q EXCEPT !.PPUADDR = data,
                   !.t = Or16(And16(q.t, 255), Shl(And16(data, 63), 8)),
                   !.w = 1]
    ELSE LET t2 == Or16(And16(q.t, 65280), data) IN
         [q EXCEPT !.PPUADDR = data, !.t = t2, !.v = t2, !.w = 0]

\* a PPUCTRL write that ORs the nametable select into t without clearing it
write_PPUCTRL_mut(q, data) ==
    [q EXCEPT !.PPUCTRL = data,
              !.t = Or16(q.t, Shl(CTRL_N(data), 10))]

\* case 0x2000: PPUCTRL
write_PPUCTRL(q, data) ==
    [q EXCEPT !.PPUCTRL = data,
              !.t = Or16(And16(q.t, 29695), Shl(CTRL_N(data), 10))]

\* a write_ppu whose PPUDATA write flips the write toggle as well
write_ppu_mut(p, addr, data) ==
    LET q == [p EXCEPT !.PPUSTATUS = Or16(And16(p.PPUSTATUS, 224), And16(data, 31))] IN
    CASE addr = 8192 -> write_PPUCTRL(q, data)
      [] addr = 8193 -> [q EXCEPT !.PPUMASK = data]
      [] addr = 8197 -> write_PPUSCROLL(q, data)
      [] addr = 8198 -> write_PPUADDR(q, data)
      [] addr = 8199 ->
           [q EXCEPT !.PPUDATA = data, !.v = U16(q.v + VramIncrement(q)),
                     !.w = 1 - q.w]
      [] OTHER -> q

write_ppu(p, addr, data) ==
    LET q == [p EXCEPT !.PPUSTATUS = Or16(And16(p.PPUSTATUS, 224), And16(data, 31))] IN
    CASE addr = 8192 -> write_PPUCTRL(q, data)
      [] addr = 8193 -> [q EXCEPT !.PPUMASK = data]
      [] addr = 8197 -> write_PPUSCROLL(q, data)
      [] addr = 8198 -> write_PPUADDR(q, data)
      [] addr = 8199 ->
           [q EXCEPT !.PPUDATA = data, !.v = U16(q.v + VramIncrement(q))]
      [] OTHER -> q

\* the PPU bus memory after write_ppu
write_ppu_bus(p, m, addr, data) ==
    IF addr = 8199 THEN ppu_bus_write(m, p.v, data) ELSE m

\* a PPUDATA read that hands out the buffered byte for palette addresses too
read_ppu_value_mut(p, m, addr) ==
    CASE addr = 8194 -> p.PPUSTATUS
      [] addr = 8199 -> IF p.v < 16384 THEN p.PPUDATA ELSE 0
      [] OTHER -> 0

\* the byte read_ppu returns
read_ppu_value(p, m, addr) ==
    CASE addr = 8194 -> p.PPUSTATUS
      [] addr = 8199 ->
           IF p.v < 16128 THEN p.PPUDATA
           ELSE IF p.v < 16384 THEN ppu_bus_read(m, p.v)
           ELSE 0
      [] OTHER -> 0

\* a PPUSTATUS read that leaves the write toggle alone
read_PPUSTATUS_mut(p) ==
    [p EXCEPT !.PPUSTATUS = SetBit(p.PPUSTATUS, 7, 0)]

\* case 0x2002: PPUSTATUS
read_PPUSTATUS(p) ==
    [p EXCEPT !.w = 0, !.PPUSTATUS = SetBit(p.PPUSTATUS, 7, 0)]

\* the State2C02 after read_ppu
read_ppu(p, m, addr) ==
    CASE addr = 8194 -> read_PPUSTATUS(p)
      [] addr = 8199 ->
           IF p.v < 16128
           THEN [p EXCEPT !.PPUDATA = ppu_bus_read(m, p.v),
                          !.v = U16(p.v + VramIncrement(p))]
           ELSE IF p.v < 16384
           THEN [p EXCEPT !.PPUDATA = ppu_bus_read(m, Or16(8192, And16(p.v, 1023))),
                          !.v = U16(p.v + VramIncrement(p))]
           ELSE p
      [] OTHER -> p

(***************************************************************************)
(* The CPU bus as the CPU core sees it: the flat 64 KiB memory of the      *)
(* BUS_TEST build.  mm.image is the byte every cell held when the image    *)
(* was loaded, mm.cells the cells that differ from it.                     *)
(***************************************************************************)
bus_read(mm, addr) ==
    IF addr \in DOMAIN mm.cells THEN mm.cells[addr] ELSE mm.image

bus_write(mm, addr, data) ==
    IF data = mm.image
    THEN [mm EXCEPT !.cells = [a \in (DOMAIN mm.cells) \ {addr} |-> mm.cells[a]]]
    ELSE [mm EXCEPT !.cells = [a \in (DOMAIN mm.cells) \cup {addr} |->
                                 IF a = addr THEN data ELSE mm.cells[a]]]

(***************************************************************************)
(* The CPU bus of the console build (the #else branch of 6502_Bus.c).      *)
(* bus->memory is the work RAM, RamSize bytes of it; the PPU registers sit *)
(* behind it.  The cartridge's mapper is not part of the sources: as in    *)
(* the specification, section 7, it claims nothing here, so a cartridge    *)
(* write is dropped and a cartridge read yields no byte.                   *)
(*                                                                         *)
(* Three things in this code have no defined outcome, and are drawn from   *)
(* Garbage by the caller:                                                  *)
(*   - write_ppu is called without its data argument;                      *)
(*   - cpu_bus_read returns a value only on the RAM path: on every other   *)
(*     path control reaches the closing brace, and what the caller gets is *)
(*     indeterminate;                                                      *)
(*   - addr & 0x0800 is 0 or 0x0800, and index 0x0800 lies one past a      *)
(*     2 KiB array: the store is kept in the cell behind the array, a      *)
(*     load from it yields that cell or anything else.                     *)
(* Garbage is defined with the bounds of the model.                        *)
(***************************************************************************)
RamSize == 2048

\* addr &= 0x0800
RamIndex(addr) == And16(addr, 2048)

\* addr = 0x2000 + addr & 0x8: the sum is formed first, then masked
PpuRegIndex(addr) == And16(U16(8192 + addr), 8)

CPUWriteCartridge(mm, addr, data) == mm

\* the bus memory and the PPU after cpu_bus_write; g stands for the byte
\* write_ppu finds in place of its missing argument
cpu_bus_write(mm, p, addr, data, g) ==
    IF addr < 8192
    THEN [memory |-> bus_write(mm, RamIndex(addr), data), ppu |-> p]
    ELSE IF addr < 16384
    THEN [memory |-> mm, ppu |-> write_ppu(p, PpuRegIndex(addr), g)]
    ELSE IF addr < 16408 THEN [memory |-> mm, ppu |-> p]
    ELSE IF addr < 16416 THEN [memory |-> mm, ppu |-> p]
    ELSE [memory |-> CPUWriteCartridge(mm, addr, data), ppu |-> p]

\* does cpu_bus_read(addr) hand back a defined byte
ReadDefined(addr) == addr < 8192 /\ RamIndex(addr) < RamSize

\* the byte cpu_bus_read returns and the PPU after it; g stands for the
\* indeterminate value
cpu_bus_read(mm, p, m, addr, g) ==
    IF addr < 8192
    THEN [ret |-> IF ReadDefined(addr) THEN bus_read(mm, RamIndex(addr)) ELSE g,
          ppu |-> p]
    ELSE IF addr < 16384
    THEN [ret |-> g, ppu |-> read_ppu(p, m, PpuRegIndex(addr))]
    ELSE IF addr < 16408 THEN [ret |-> g, ppu |-> p]
    ELSE IF addr < 16416 THEN [ret |-> g, ppu |-> p]
    ELSE [ret |-> g, ppu |-> p]

(***************************************************************************)
(* Status register flags: N V _ B D I Z C, bit 7 to bit 0.                 *)
(***************************************************************************)
FlagC == 0

FlagZ == 1

FlagI == 2

FlagD == 3

FlagB == 4

FlagU == 5

FlagV == 6

FlagN == 7

Flag(s, f) == Bit(s.status, f)

SetFlag(s, f, b) == [s EXCEPT !.status = SetBit(s.status, f, IF b THEN 1 ELSE 0)]

SetZN(s, val) == SetFlag(SetFlag(s, FlagZ, val % 256 = 0), FlagN, Bit(val, 7) = 1)

\* (int8_t)operand
Int8(b) == IF b >= 128 THEN b - 256 ELSE b

StackAddr(s) == 256 + s.SP

(***************************************************************************)
(* Addressing modes: the State6502 after the operand fetch (.s) and the    *)
(* page-crossed flag (.c).                                                 *)
(***************************************************************************)
ACC(s, mm) == [s |-> s, c |-> FALSE]

IMP(s, mm) == [s |-> s, c |-> FALSE]

IMM(s, mm) ==
    [s |-> [s EXCEPT !.operand = bus_read(mm, s.PC), !.PC = U16(s.PC + 1)],
     c |-> FALSE]

REL(s, mm) ==
    [s |-> [s EXCEPT !.operand = bus_read(mm, s.PC), !.PC = U16(s.PC + 1)],
     c |-> FALSE]

ZP0(s, mm) ==
    LET a == bus_read(mm, s.PC) IN
    [s |-> [s EXCEPT !.addr = a, !.operand = bus_read(mm, a), !.PC = U16(s.PC + 1)],
     c |-> FALSE]

ZPX(s, mm) ==
    LET a == (bus_read(mm, s.PC) + s.X) % 256 IN
    [s |-> [s EXCEPT !.addr = a, !.operand = bus_read(mm, a), !.PC = U16(s.PC + 1)],
     c |-> FALSE]

ZPY(s, mm) ==
    LET a == (bus_read(mm, s.PC) + s.Y) % 256 IN
    [s |-> [s EXCEPT !.addr = a, !.operand = bus_read(mm, a), !.PC = U16(s.PC + 1)],
     c |-> FALSE]

\* the little-endian word at PC, PC + 1
OperandWord(s, mm) == bus_read(mm, U16(s.PC + 1)) * 256 + bus_read(mm, s.PC)

ABS(s, mm) ==
    LET a == OperandWord(s, mm) IN
    [s |-> [s EXCEPT !.addr = a, !.operand = bus_read(mm, a), !.PC = U16(s.PC + 2)],
     c |-> FALSE]

ABX(s, mm) ==
    LET a0 == OperandWord(s, mm)
        a  == U16(a0 + s.X)
    IN  [s |-> [s EXCEPT !.addr = a, !.operand = bus_read(mm, a), !.PC = U16(s.PC + 2)],
         c |-> (a0 \div 256) # (a \div 256)]

ABY(s, mm) ==
    LET a0 == OperandWord(s, mm)
        a  == U16(a0 + s.Y)
    IN  [s |-> [s EXCEPT !.addr = a, !.operand = bus_read(mm, a), !.PC = U16(s.PC + 2)],
         c |-> (a0 \div 256) # (a \div 256)]

IND(s, mm) ==
    LET a == OperandWord(s, mm) IN
    [s |-> [s EXCEPT !.indirect_fetch =
                         bus_read(mm, U16(a + 1)) * 256 + bus_read(mm, a),
                     !.PC = U16(s.PC + 2)],
     c |-> TRUE]

IZX(s, mm) ==
    LET zp == (bus_read(mm, s.PC) + s.X) % 256
        a  == bus_read(mm, (zp + 1) % 256) * 256 + bus_read(mm, zp)
    IN  [s |-> [s EXCEPT !.addr = a, !.operand = bus_read(mm, a), !.PC = U16(s.PC + 1)],
         c |-> FALSE]

IZY(s, mm) ==
    LET zp == bus_read(mm, s.PC)
        a0 == bus_read(mm, (zp + 1) % 256) * 256 + bus_read(mm, zp)
        a  == U16(a0 + s.Y)
    IN  [s |-> [s EXCEPT !.addr = a, !.operand = bus_read(mm, a), !.PC = U16(s.PC + 1)],
         c |-> (a0 \div 256) # (a \div 256)]

adressing_mode(name, s, mm) ==
    CASE name = "ACC" -> ACC(s, mm) [] name = "IMP" -> IMP(s, mm)
      [] name = "IMM" -> IMM(s, mm) [] name = "REL" -> REL(s, mm)
      [] name = "ZP0" -> ZP0(s, mm) [] name = "ZPX" -> ZPX(s, mm)
      [] name = "ZPY" -> ZPY(s, mm) [] name = "ABS" -> ABS(s, mm)
      [] name = "ABX" -> ABX(s, mm) [] name = "ABY" -> ABY(s, mm)
      [] name = "IND" -> IND(s, mm) [] name = "IZX" -> IZX(s, mm)
      [] name = "IZY" -> IZY(s, mm)

(***************************************************************************)
(* Operations: the State6502 (.s) and memory (.m) after the operation and  *)
(* the extra cycles it returns (.e).                                       *)
(***************************************************************************)
Ret(s, mm, e) == [s |-> s, m |-> mm, e |-> e]

Push(s, mm, data) == bus_write(mm, StackAddr(s), data)

DecSP(s) == [s EXCEPT !.SP = (s.SP + 255) % 256]

IncSP(s) == [s EXCEPT !.SP = (s.SP + 1) % 256]

ADC(s, c, mm) ==
    LET result == s.A + s.operand + Flag(s, FlagC)
        s1 == SetFlag(s, FlagC, result > 255)
        s2 == SetFlag(s1, FlagZ, result % 256 = 0)
        s3 == SetFlag(s2, FlagN, Bit(result, 7) = 1)
        s4 == SetFlag(s3, FlagV,
                 And16(And16(Not16(Xor16(s.A, s.operand)), Xor16(s.A, result)), 128) = 128)
    IN  Ret([s4 EXCEPT !.A = result % 256], mm, IF c THEN 1 ELSE 0)

AND(s, c, mm) ==
    LET a == And16(s.A, s.operand) IN
    Ret(SetZN([s EXCEPT !.A = a], a), mm, IF c THEN 1 ELSE 0)

\* the result is not stored back: only the flags change
ASL(s, c, mm) ==
    LET result == s.A * 2 IN
    Ret(SetZN(SetFlag(s, FlagC, Bit(result, 8) = 1), result), mm, 0)

\* the eight branches share one body; taken is the flag test
Branch(s, c, mm, taken) ==
    IF taken
    THEN Ret([s EXCEPT !.PC = U16(s.PC + 65536 + Int8(s.operand))], mm,
             IF c THEN 2 ELSE 1)
    ELSE Ret(s, mm, 0)

BCC(s, c, mm) == Branch(s, c, mm, Flag(s, FlagC) = 0)

BCS(s, c, mm) == Branch(s, c, mm, Flag(s, FlagC) = 1)

BEQ(s, c, mm) == Branch(s, c, mm, Flag(s, FlagZ) = 1)

BNE(s, c, mm) == Branch(s, c, mm, Flag(s, FlagZ) = 0)

BMI(s, c, mm) == Branch(s, c, mm, Flag(s, FlagN) = 1)

BPL(s, c, mm) == Branch(s, c, mm, Flag(s, FlagN) = 0)

BVC(s, c, mm) == Branch(s, c, mm, Flag(s, FlagV) = 0)

BVS(s, c, mm) == Branch(s, c, mm, Flag(s, FlagV) = 1)

BIT(s, c, mm) ==
    LET s1 == SetFlag(s, FlagZ, And16(s.A, s.operand) = 0)
        s2 == SetFlag(s1, FlagV, Bit(s.operand, 6) = 1)
    IN  Ret(SetFlag(s2, FlagN, Bit(s.operand, 7) = 1), mm, 0)

BRK(s, c, mm) ==
    LET pc == U16(s.PC + 1)
        m1 == Push(s, mm, pc \div 256)
        s1 == DecSP(s)
        m2 == Push(s1, m1, pc % 256)
        s2 == DecSP(s1)
        m3 == Push(s2, m2, Or16(s.status, 48))
        s3 == DecSP(s2)
        vec == bus_read(m3, 65535) * 256 + bus_read(m3, 65534)
    IN  Ret(SetFlag([s3 EXCEPT !.PC = vec], FlagI, TRUE), m3, 0)

CLC(s, c, mm) == Ret(SetFlag(s, FlagC, FALSE), mm, 0)

CLD(s, c, mm) == Ret(SetFlag(s, FlagD, FALSE), mm, 0)

CLI(s, c, mm) == Ret(SetFlag(s, FlagI, FALSE), mm, 0)

CLV(s, c, mm) == Ret(SetFlag(s, FlagV, FALSE), mm, 0)

\* CMP, CPX and CPY share one body; reg is the register compared
Compare(s, mm, reg, e) ==
    LET s1 == SetFlag(s, FlagC, reg >= s.operand)
        s2 == SetFlag(s1, FlagZ, reg = s.operand)
        result == U16(reg + 65536 - s.operand)
    IN  Ret(SetFlag(s2, FlagN, Bit(result, 7) = 1), mm, e)

CMP(s, c, mm) == Compare(s, mm, s.A, IF c THEN 1 ELSE 0)

CPX(s, c, mm) == Compare(s, mm, s.X, 0)

CPY(s, c, mm) == Compare(s, mm, s.Y, 0)

DEC(s, c, mm) ==
    LET result == U8(s.operand + 255) IN
    Ret(SetZN(s, result), bus_write(mm, s.addr, result), 0)

DEX(s, c, mm) == LET r == U8(s.X + 255) IN Ret(SetZN([s EXCEPT !.X = r], r), mm, 0)

DEY(s, c, mm) == LET r == U8(s.Y + 255) IN Ret(SetZN([s EXCEPT !.Y = r], r), mm, 0)

EOR(s, c, mm) ==
    LET a == Xor16(s.A, s.operand) IN
    Ret(SetZN([s EXCEPT !.A = a], a), mm, IF c THEN 1 ELSE 0)

INC(s, c, mm) ==
    LET result == U8(s.operand + 1) IN
    Ret(SetZN(s, result), bus_write(mm, s.addr, result), 0)

INX(s, c, mm) == LET r == U8(s.X + 1) IN Ret(SetZN([s EXCEPT !.X = r], r), mm, 0)

INY(s, c, mm) == LET r == U8(s.Y + 1) IN Ret(SetZN([s EXCEPT !.Y = r], r), mm, 0)

\* c is the indirect-mode tag; the absolute form takes PC from the operand byte
JMP(s, c, mm) ==
    IF c THEN Ret([s EXCEPT !.PC = s.indirect_fetch], mm, 0)
    ELSE Ret([s EXCEPT !.PC = s.operand], mm, 0)

JSR(s, c, mm) ==
    LET pc == U16(s.PC + 65535)
        m1 == Push(s, mm, pc \div 256)
        s1 == DecSP(s)
        m2 == Push(s1, m1, pc % 256)
        s2 == DecSP(s1)
    IN  Ret([s2 EXCEPT !.PC = s.addr], m2, 0)

LDA(s, c, mm) ==
    Ret(SetZN([s EXCEPT !.A = s.operand], s.operand), mm, IF c THEN 1 ELSE 0)

LDX(s, c, mm) ==
    Ret(SetZN([s EXCEPT !.X = s.operand], s.operand), mm, IF c THEN 1 ELSE 0)

LDY(s, c, mm) ==
    Ret(SetZN([s EXCEPT !.Y = s.operand], s.operand), mm, IF c THEN 1 ELSE 0)

\* LSR, ROL and ROR have an empty body and no return statement: the value
\* used as their extra cycles is indeterminate (g)
LSR(s, c, mm, g) == Ret(s, mm, g)

ROL(s, c, mm, g) == Ret(s, mm, g)

ROR(s, c, mm, g) == Ret(s, mm, g)

NOP(s, c, mm) == Ret(s, mm, 0)

ORA(s, c, mm) ==
    LET a == Or16(s.A, s.operand) IN
    Ret(SetZN([s EXCEPT !.A = a], a), mm, IF c THEN 1 ELSE 0)

PHA(s, c, mm) == Ret(DecSP(s), Push(s, mm, s.A), 0)

PHP(s, c, mm) == Ret(DecSP(s), Push(s, mm, Or16(s.status, 48)), 0)

PLA(s, c, mm) ==
    LET s1 == IncSP(s)
        a  == bus_read(mm, StackAddr(s1))
    IN  Ret(SetZN([s1 EXCEPT !.A = a], a), mm, 0)

PLP(s, c, mm) ==
    LET s1 == IncSP(s) IN
    Ret([s1 EXCEPT !.status = bus_read(mm, StackAddr(s1))], mm, 0)

\* (PCH << 8) | PCL + 1: the addition binds tighter than the OR
PulledPC(PCL, PCH) == U16(Or16(Shl(PCH, 8), PCL + 1))

RTI(s, c, mm) ==
    LET s1 == IncSP(s)
        st == bus_read(mm, StackAddr(s1))
        s2 == IncSP(s1)
        PCL == bus_read(mm, StackAddr(s2))
        s3 == IncSP(s2)
        PCH == bus_read(mm, StackAddr(s3))
    IN  Ret([s3 EXCEPT !.status = st, !.PC = PulledPC(PCL, PCH)], mm, 0)

RTS(s, c, mm) ==
    LET s1 == IncSP(s)
        PCL == bus_read(mm, StackAddr(s1))
        s2 == IncSP(s1)
        PCH == bus_read(mm, StackAddr(s2))
    IN  Ret([s2 EXCEPT !.PC = PulledPC(PCL, PCH)], mm, 0)

\* status.flags.V is a one-bit field: it keeps bit 0 of the value assigned
SBC(s, c, mm) ==
    LET value == Xor16(s.operand, 255)
        temp == s.A + value + Flag(s, FlagC)
        s1 == SetFlag(s, FlagC, temp \div 256 # 0)
        s2 == SetFlag(s1, FlagZ, temp % 256 = 0)
        s3 == SetFlag(s2, FlagV,
                 And16(And16(Xor16(temp, s.A), Xor16(temp, value)), 128) % 2 = 1)
        s4 == SetFlag(s3, FlagN, Bit(temp, 7) = 1)
    IN  Ret([s4 EXCEPT !.A = temp % 256], mm, IF c THEN 1 ELSE 0)

SEC(s, c, mm) == Ret(SetFlag(s, FlagC, TRUE), mm, 0)

SED(s, c, mm) == Ret(SetFlag(s, FlagD, TRUE), mm, 0)

SEI(s, c, mm) == Ret(SetFlag(s, FlagI, TRUE), mm, 0)

STA(s, c, mm) == Ret(s, bus_write(mm, s.addr, s.A), 0)

STX(s, c, mm) == Ret(s, bus_write(mm, s.addr, s.X), 0)

STY(s, c, mm) == Ret(s, bus_write(mm, s.addr, s.Y), 0)

TAX(s, c, mm) == Ret(SetZN([s EXCEPT !.X = s.A], s.A), mm, 0)

TAY(s, c, mm) == Ret(SetZN([s EXCEPT !.Y = s.A], s.A), mm, 0)

TSX(s, c, mm) == Ret(SetZN([s EXCEPT !.X = s.SP], s.SP), mm, 0)

TXA(s, c, mm) == Ret(SetZN([s EXCEPT !.A = s.X], s.X), mm, 0)

TXS(s, c, mm) == Ret(SetZN([s EXCEPT !.SP = s.X], s.X), mm, 0)

TYA(s, c, mm) == Ret(SetZN([s EXCEPT !.A = s.Y], s.Y), mm, 0)

XXX(s, c, mm) == Ret(s, mm, 0)

operation(name, s, c, mm, g) ==
    CASE name = "ADC" -> ADC(s, c, mm) [] name = "AND" -> AND(s, c, mm)
      [] name = "ASL" -> ASL(s, c, mm) [] name = "BCC" -> BCC(s, c, mm)
      [] name = "BCS" -> BCS(s, c, mm) [] name = "BEQ" -> BEQ(s, c, mm)
      [] name = "BIT" -> BIT(s, c, mm) [] name = "BMI" -> BMI(s, c, mm)
      [] name = "BNE" -> BNE(s, c, mm) [] name = "BPL" -> BPL(s, c, mm)
      [] name = "BRK" -> BRK(s, c, mm) [] name = "BVC" -> BVC(s, c, mm)
      [] name = "BVS" -> BVS(s, c, mm) [] name = "CLC" -> CLC(s, c, mm)
      [] name = "CLD" -> CLD(s, c, mm) [] name = "CLI" -> CLI(s, c, mm)
      [] name = "CLV" -> CLV(s, c, mm) [] name = "CMP" -> CMP(s, c, mm)
      [] name = "CPX" -> CPX(s, c, mm) [] name = "CPY" -> CPY(s, c, mm)
      [] name = "DEC" -> DEC(s, c, mm) [] name = "DEX" -> DEX(s, c, mm)
      [] name = "DEY" -> DEY(s, c, mm) [] name = "EOR" -> EOR(s, c, mm)
      [] name = "INC" -> INC(s, c, mm) [] name = "INX" -> INX(s, c, mm)
      [] name = "INY" -> INY(s, c, mm) [] name = "JMP" -> JMP(s, c, mm)
      [] name = "JSR" -> JSR(s, c, mm) [] name = "LDA" -> LDA(s, c, mm)
      [] name = "LDX" -> LDX(s, c, mm) [] name = "LDY" -> LDY(s, c, mm)
      [] name = "LSR" -> LSR(s, c, mm, g) [] name = "NOP" -> NOP(s, c, mm)
      [] name = "ORA" -> ORA(s, c, mm) [] name = "PHA" -> PHA(s, c, mm)
      [] name = "PHP" -> PHP(s, c, mm) [] name = "PLA" -> PLA(s, c, mm)
      [] name = "PLP" -> PLP(s, c, mm) [] name = "ROL" -> ROL(s, c, mm, g)
      [] name = "ROR" -> ROR(s, c, mm, g) [] name = "RTI" -> RTI(s, c, mm)
      [] name = "RTS" -> RTS(s, c, mm) [] name = "SBC" -> SBC(s, c, mm)
      [] name = "SEC" -> SEC(s, c, mm) [] name = "SED" -> SED(s, c, mm)
      [] name = "SEI" -> SEI(s, c, mm) [] name = "STA" -> STA(s, c, mm)
      [] name = "STX" -> STX(s, c, mm) [] name = "STY" -> STY(s, c, mm)
      [] name = "TAX" -> TAX(s, c, mm) [] name = "TAY" -> TAY(s, c, mm)
      [] name = "TSX" -> TSX(s, c, mm) [] name = "TXA" -> TXA(s, c, mm)
      [] name = "TXS" -> TXS(s, c, mm) [] name = "TYA" -> TYA(s, c, mm)
      [] name = "XXX" -> XXX(s, c, mm)

\* the operations whose return value is indeterminate
NoReturn == {"LSR", "ROL", "ROR"}

(***************************************************************************)
(* The decode table: <<operation, addressing mode, cycles>> by opcode.     *)
(***************************************************************************)
opcodes ==
    <<
       <<"BRK", "IMM", 7>>, <<"ORA", "IZX", 6>>, <<"XXX", "IMP", 2>>, <<"XXX", "IMP", 8>>,
       <<"NOP", "IMP", 3>>, <<"ORA", "ZP0", 3>>, <<"ASL", "ZP0", 5>>, <<"XXX", "IMP", 5>>,
       <<"PHP", "IMP", 3>>, <<"ORA", "IMM", 2>>, <<"ASL", "IMP", 2>>, <<"XXX", "IMP", 2>>,
       <<"NOP", "IMP", 4>>, <<"ORA", "ABS", 4>>, <<"ASL", "ABS", 6>>, <<"XXX", "IMP", 6>>,
       <<"BPL", "REL", 2>>, <<"ORA", "IZY", 5>>, <<"XXX", "IMP", 2>>, <<"XXX", "IMP", 8>>,
       <<"NOP", "IMP", 4>>, <<"ORA", "ZPX", 4>>, <<"ASL", "ZPX", 6>>, <<"XXX", "IMP", 6>>,
       <<"CLC", "IMP", 2>>, <<"ORA", "ABY", 4>>, <<"NOP", "IMP", 2>>, <<"XXX", "IMP", 7>>,
       <<"NOP", "IMP", 4>>, <<"ORA", "ABX", 4>>, <<"ASL", "ABX", 7>>, <<"XXX", "IMP", 7>>,
       <<"JSR", "ABS", 6>>, <<"AND", "IZX", 6>>, <<"XXX", "IMP", 2>>, <<"XXX", "IMP", 8>>,
       <<"BIT", "ZP0", 3>>, <<"AND", "ZP0", 3>>, <<"ROL", "ZP0", 5>>, <<"XXX", "IMP", 5>>,
       <<"PLP", "IMP", 4>>, <<"AND", "IMM", 2>>, <<"ROL", "IMP", 2>>, <<"XXX", "IMP", 2>>,
       <<"BIT", "ABS", 4>>, <<"AND", "ABS", 4>>, <<"ROL", "ABS", 6>>, <<"XXX", "IMP", 6>>,
       <<"BMI", "REL", 2>>, <<"AND", "IZY", 5>>, <<"XXX", "IMP", 2>>, <<"XXX", "IMP", 8>>,
       <<"NOP", "IMP", 4>>, <<"AND", "ZPX", 4>>, <<"ROL", "ZPX", 6>>, <<"XXX", "IMP", 6>>,
       <<"SEC", "IMP", 2>>, <<"AND", "ABY", 4>>, <<"NOP", "IMP", 2>>, <<"XXX", "IMP", 7>>,
       <<"NOP", "IMP", 4>>, <<"AND", "ABX", 4>>, <<"ROL", "ABX", 7>>, <<"XXX", "IMP", 7>>,
       <<"RTI", "IMP", 6>>, <<"EOR", "IZX", 6>>, <<"XXX", "IMP", 2>>, <<"XXX", "IMP", 8>>,
       <<"NOP", "IMP", 3>>, <<"EOR", "ZP0", 3>>, <<"LSR", "ZP0", 5>>, <<"XXX", "IMP", 5>>,
       <<"PHA", "IMP", 3>>, <<"EOR", "IMM", 2>>, <<"LSR", "IMP", 2>>, <<"XXX", "IMP", 2>>,
       <<"JMP", "ABS", 3>>, <<"EOR", "ABS", 4>>, <<"LSR", "ABS", 6>>, <<"XXX", "IMP", 6>>,
       <<"BVC", "REL", 2>>, <<"EOR", "IZY", 5>>, <<"XXX", "IMP", 2>>, <<"XXX", "IMP", 8>>,
       <<"NOP", "IMP", 4>>, <<"EOR", "ZPX", 4>>, <<"LSR", "ZPX", 6>>, <<"XXX", "IMP", 6>>,
       <<"CLI", "IMP", 2>>, <<"EOR", "ABY", 4>>, <<"NOP", "IMP", 2>>, <<"XXX", "IMP", 7>>,
       <<"NOP", "IMP", 4>>, <<"EOR", "ABX", 4>>, <<"LSR", "ABX", 7>>, <<"XXX", "IMP", 7>>,
       <<"RTS", "IMP", 6>>, <<"ADC", "IZX", 6>>, <<"XXX", "IMP", 2>>, <<"XXX", "IMP", 8>>,
       <<"NOP", "IMP", 3>>, <<"ADC", "ZP0", 3>>, <<"ROR", "ZP0", 5>>, <<"XXX", "IMP", 5>>,
       <<"PLA", "IMP", 4>>, <<"ADC", "IMM", 2>>, <<"ROR", "IMP", 2>>, <<"XXX", "IMP", 2>>,
       <<"JMP", "IND", 5>>, <<"ADC", "ABS", 4>>, <<"ROR", "ABS", 6>>, <<"XXX", "IMP", 6>>,
       <<"BVS", "REL", 2>>, <<"ADC", "IZY", 5>>, <<"XXX", "IMP", 2>>, <<"XXX", "IMP", 8>>,
       <<"NOP", "IMP", 4>>, <<"ADC", "ZPX", 4>>, <<"ROR", "ZPX", 6>>, <<"XXX", "IMP", 6>>,
       <<"SEI", "IMP", 2>>, <<"ADC", "ABY", 4>>, <<"NOP", "IMP", 2>>, <<"XXX", "IMP", 7>>,
       <<"NOP", "IMP", 4>>, <<"ADC", "ABX", 4>>, <<"ROR", "ABX", 7>>, <<"XXX", "IMP", 7>>,
       <<"NOP", "IMP", 2>>, <<"STA", "IZX", 6>>, <<"NOP", "IMP", 2>>, <<"XXX", "IMP", 6>>,
       <<"STY", "ZP0", 3>>, <<"STA", "ZP0", 3>>, <<"STX", "ZP0", 3>>, <<"XXX", "IMP", 3>>,
       <<"DEY", "IMP", 2>>, <<"NOP", "IMP", 2>>, <<"TXA", "IMP", 2>>, <<"XXX", "IMP", 2>>,
       <<"STY", "ABS", 4>>, <<"STA", "ABS", 4>>, <<"STX", "ABS", 4>>, <<"XXX", "IMP", 4>>,
       <<"BCC", "REL", 2>>, <<"STA", "IZY", 6>>, <<"XXX", "IMP", 2>>, <<"XXX", "IMP", 6>>,
       <<"STY", "ZPX", 4>>, <<"STA", "ZPX", 4>>, <<"STX", "ZPY", 4>>, <<"XXX", "IMP", 4>>,
       <<"TYA", "IMP", 2>>, <<"STA", "ABY", 5>>, <<"TXS", "IMP", 2>>, <<"XXX", "IMP", 5>>,
       <<"NOP", "IMP", 5>>, <<"STA", "ABX", 5>>, <<"XXX", "IMP", 5>>, <<"XXX", "IMP", 5>>,
       <<"LDY", "IMM", 2>>, <<"LDA", "IZX", 6>>, <<"LDX", "IMM", 2>>, <<"XXX", "IMP", 6>>,
       <<"LDY", "ZP0", 3>>, <<"LDA", "ZP0", 3>>, <<"LDX", "ZP0", 3>>, <<"XXX", "IMP", 3>>,
       <<"TAY", "IMP", 2>>, <<"LDA", "IMM", 2>>, <<"TAX", "IMP", 2>>, <<"XXX", "IMP", 2>>,
       <<"LDY", "ABS", 4>>, <<"LDA", "ABS", 4>>, <<"LDX", "ABS", 4>>, <<"XXX", "IMP", 4>>,
       <<"BCS", "REL", 2>>, <<"LDA", "IZY", 5>>, <<"XXX", "IMP", 2>>, <<"XXX", "IMP", 5>>,
       <<"LDY", "ZPX", 4>>, <<"LDA", "ZPX", 4>>, <<"LDX", "ZPY", 4>>, <<"XXX", "IMP", 4>>,
       <<"CLV", "IMP", 2>>, <<"LDA", "ABY", 4>>, <<"TSX", "IMP", 2>>, <<"XXX", "IMP", 4>>,
       <<"LDY", "ABX", 4>>, <<"LDA", "ABX", 4>>, <<"LDX", "ABY", 4>>, <<"XXX", "IMP", 4>>,
       <<"CPY", "IMM", 2>>, <<"CMP", "IZX", 6>>, <<"NOP", "IMP", 2>>, <<"XXX", "IMP", 8>>,
       <<"CPY", "ZP0", 3>>, <<"CMP", "ZP0", 3>>, <<"DEC", "ZP0", 5>>, <<"XXX", "IMP", 5>>,
       <<"INY", "IMP", 2>>, <<"CMP", "IMM", 2>>, <<"DEX", "IMP", 2>>, <<"XXX", "IMP", 2>>,
       <<"CPY", "ABS", 4>>, <<"CMP", "ABS", 4>>, <<"DEC", "ABS", 6>>, <<"XXX", "IMP", 6>>,
       <<"BNE", "REL", 2>>, <<"CMP", "IZY", 5>>, <<"XXX", "IMP", 2>>, <<"XXX", "IMP", 8>>,
       <<"NOP", "IMP", 4>>, <<"CMP", "ZPX", 4>>, <<"DEC", "ZPX", 6>>, <<"XXX", "IMP", 6>>,
       <<"CLD", "IMP", 2>>, <<"CMP", "ABY", 4>>, <<"NOP", "IMP", 2>>, <<"XXX", "IMP", 7>>,
       <<"NOP", "IMP", 4>>, <<"CMP", "ABX", 4>>, <<"DEC", "ABX", 7>>, <<"XXX", "IMP", 7>>,
       <<"CPX", "IMM", 2>>, <<"SBC", "IZX", 6>>, <<"NOP", "IMP", 2>>, <<"XXX", "IMP", 8>>,
       <<"CPX", "ZP0", 3>>, <<"SBC", "ZP0", 3>>, <<"INC", "ZP0", 5>>, <<"XXX", "IMP", 5>>,
       <<"INX", "IMP", 2>>, <<"SBC", "IMM", 2>>, <<"NOP", "IMP", 2>>, <<"SBC", "IMP", 2>>,
       <<"CPX", "ABS", 4>>, <<"SBC", "ABS", 4>>, <<"INC", "ABS", 6>>, <<"XXX", "IMP", 6>>,
       <<"BEQ", "REL", 2>>, <<"SBC", "IZY", 5>>, <<"XXX", "IMP", 2>>, <<"XXX", "IMP", 8>>,
       <<"NOP", "IMP", 4>>, <<"SBC", "ZPX", 4>>, <<"INC", "ZPX", 6>>, <<"XXX", "IMP", 6>>,
       <<"SED", "IMP", 2>>, <<"SBC", "ABY", 4>>, <<"NOP", "IMP", 2>>, <<"XXX", "IMP", 7>>,
       <<"NOP", "IMP", 4>>, <<"SBC", "ABX", 4>>, <<"INC", "ABX", 7>>, <<"XXX", "IMP", 7>>
    >>

Instruction(opcode) ==
    LET e == opcodes[opcode + 1] IN
    [operation |-> e[1], adressing_mode |-> e[2], cycles |-> e[3]]

(***************************************************************************)
(* clock: one CPU cycle.  rem is the static counter `remaining`, a         *)
(* uint32_t: it is decremented only when it is not 0 and the sums below    *)
(* stay far under 2^32, so no operation on it wraps.  The result holds the State6502 (.s), the memory (.m), the    *)
(* counter (.rem), the signal returned to the driver (.complete) and, for   *)
(* a fetch, the decode table's cycles plus the extra cycles (.len).        *)
(***************************************************************************)
\* the signal clock_6502 returns to the driver: the call that fetched and
\* executed an instruction reports it complete, a call that only counted a
\* cycle down reports mid-instruction
ClockSignal(fetched) == fetched

ClockFetch(s, mm, g) ==
    LET opcode == bus_read(mm, s.PC)
        inst == Instruction(opcode)
        s1 == [s EXCEPT !.PC = U16(s.PC + 1)]
        am == adressing_mode(inst.adressing_mode, s1, mm)
        op == operation(inst.operation, am.s, am.c, mm, g)
    IN  [s |-> op.s, m |-> op.m, rem |-> inst.cycles - 1 + op.e,
         complete |-> ClockSignal(TRUE), len |-> inst.cycles + op.e]

\* a count-down call that also steps PC
ClockCount_mut(s, mm, rem) ==
    [s |-> [s EXCEPT !.PC = U16(s.PC + 1)], m |-> mm, rem |-> rem - 1,
     complete |-> ClockSignal(FALSE), len |-> 0]

ClockCount(s, mm, rem) ==
    [s |-> s, m |-> mm, rem |-> rem - 1, complete |-> ClockSignal(FALSE),
     len |-> 0]

clock(s, mm, rem, g) ==
    IF rem = 0 THEN ClockFetch(s, mm, g) ELSE ClockCount(s, mm, rem)

\* the extra cycles a fetch of this opcode can return: g is read only by the
\* operations that return no value
IsNoReturn(s, mm) == Instruction(bus_read(mm, s.PC)).operation \in NoReturn

power_on(s0) ==
    [s0 EXCEPT !.status = 52, !.A = 0, !.X = 0, !.Y = 0, !.SP = 253]

\* the bus writes of power_on: 0x4015, 0x4017, 0x4000..0x4013
PowerOnWrites == (16384 .. 16403) \cup {16405, 16407}

power_on_bus(mm) ==
    IF mm.image = 0
    THEN [mm EXCEPT !.cells = [a \in (DOMAIN mm.cells) \ PowerOnWrites |-> mm.cells[a]]]
    ELSE [mm EXCEPT !.cells = [a \in (DOMAIN mm.cells) \cup PowerOnWrites |->
                                 IF a \in PowerOnWrites THEN 0 ELSE mm.cells[a]]]

reset(s) == SetFlag([s EXCEPT !.SP = (s.SP + 253) % 256], FlagI, TRUE)

reset_bus(mm) == bus_write(mm, 16405, 0)

(***************************************************************************)
(* NMI.  The CPU core's interrupt entry is not part of the sources; it is  *)
(* modelled from the specification, section 4.1: push PC (high, low) and   *)
(* the status with bit 5 set and bit 4 clear, set I, load PC from          *)
(* 0xFFFA/B, cost 7 cycles.                                                *)
(***************************************************************************)
NMI(s, mm, rem) ==
    LET m1 == Push(s, mm, s.PC \div 256)
        s1 == DecSP(s)
        m2 == Push(s1, m1, s.PC % 256)
        s2 == DecSP(s1)
        m3 == Push(s2, m2, SetBit(SetBit(s.status, FlagU, 1), FlagB, 0))
        s3 == DecSP(s2)
        vec == bus_read(m3, 65531) * 256 + bus_read(m3, 65530)
    IN  [s |-> SetFlag([s3 EXCEPT !.PC = vec], FlagI, TRUE), m |-> m3,
         rem |-> rem + 7]

\* IRQ, from the same section: as NMI, but only when I is clear, and
\* through the vector at 0xFFFE/F
IRQ(s, mm, rem) ==
    IF Bit(s.status, FlagI) = 1
    THEN [s |-> s, m |-> mm, rem |-> rem]
    ELSE LET m1 == Push(s, mm, s.PC \div 256)
             s1 == DecSP(s)
             m2 == Push(s1, m1, s.PC % 256)
             s2 == DecSP(s1)
             m3 == Push(s2, m2, SetBit(SetBit(s.status, FlagU, 1), FlagB, 0))
             s3 == DecSP(s2)
             vec == bus_read(m3, 65535) * 256 + bus_read(m3, 65534)
         IN  [s |-> SetFlag([s3 EXCEPT !.PC = vec], FlagI, TRUE), m |-> m3,
              rem |-> rem + 7]

(***************************************************************************)
(* Bounds of the model.                                                    *)
(***************************************************************************)
\* master ticks explored by SpecNes
MaxClock == 14

\* master ticks explored by SpecFrame: up to the second return of
\* clock_nes_frame (tick 82522 + 89342) and the start of VBlank that follows
MaxFrameClock == 171870

\* register accesses explored by Spec and SpecNes
MaxAccess == 3

\* register accesses explored by SpecFrame
MaxFrameAccess == 1

\* CPU clocks explored by SpecCpu
MaxCpuClocks == 12

\* largest indeterminate value drawn for an operation that returns none
MaxGarbage == 2

Garbage == 0 .. MaxGarbage

(***************************************************************************)
(* Construction.  power_on_2C02 and power_on leave v, t, x, the latches,   *)
(* the shift registers, PC and the operand scratch untouched; the initial  *)
(* states draw them from the sets given.                                   *)
(***************************************************************************)
RawPpu(v0, t0, x0, sh) ==
    [PPUCTRL |-> 0, PPUMASK |-> 0, PPUSTATUS |-> 0, OAMADDR |-> 0,
     PPUSCROLL |-> 0, PPUADDR |-> 0, PPUDATA |-> 0,
     v |-> v0, t |-> t0, x |-> x0, w |-> 0,
     name_tbl_byte |-> 0, pa_latch_low |-> 0, pa_latch_high |-> 0,
     pt_latch_low |-> 0, pt_latch_high |-> 0,
     pt_shift_low |-> sh, pt_shift_high |-> sh,
     pa_shift_low |-> sh, pa_shift_high |-> sh,
     scanline |-> 0, cycles |-> 0, evenframe |-> 0]

RawCpu(pc, x0, y0) ==
    [A |-> 0, X |-> x0, Y |-> y0, SP |-> 0, PC |-> pc, status |-> 0,
     operand |-> 0, addr |-> 0, indirect_fetch |-> 0]

\* no CPU bus write came right before
NoWrite == [addr |-> -1, data |-> 0, memory |-> [image |-> 0, cells |-> << >>]]

\* what the last step did: the operation, the register address and byte of
\* an access, whether the PPU clock raised NMI (with `remaining` as the CPU
\* held it then) and presented the frame, what the CPU clock did and whether
\* it left the registers and memory alone, the PPU as it was before, the
\* CPU bus write a read follows, and the CPU as it was before a CPU clock
\* or a reset (a CPU clock also leaves its PC in addr and, when it fetches,
\* the opcode in data)
NoEvent(p) ==
    [op |-> "init", addr |-> 0, data |-> 0, nmi |-> FALSE, present |-> FALSE,
     nmi_rem |-> -1, cpu |-> "none", quiet |-> TRUE, pre |-> p, wr |-> NoWrite,
     s |-> RawCpu(0, 0, 0), irq |-> FALSE, old |-> 0]

\* no JSR was executed yet (hist.call); hist.start is v as it was before the
\* first of a run of scroll increments; old_nmi and old_PC are the interrupt
\* test's locals of these names, nmis, irqs and instructions count its calls
\* of NMI and IRQ and its passes through the instruction loop
NoCall == [pc |-> -1, sp |-> 0]

\* no register access was made yet, or the accesses are not followed
\* (hist.toggle < 0).  When they are, hist.toggle is the parity of the
\* writes to 0x2005 and 0x2006 since the last read of 0x2002, reset or
\* power-on, computed from the addresses alone; hist.last is the latest
\* access (its kind, address, and w as it found it) and hist.before the
\* access before that
NoAccess == [op |-> "none", addr |-> -1, w |-> 0]

\* The pixel stores of the scanline being drawn, when they are followed
\* (hist.row_writes >= 0): row_writes counts the stores since the clock at
\* dot 0, row_on tells that PPUMASK.b was set at every PPU clock of the
\* line so far, row_last is the index of the latest store of the line and
\* row_prev the index of the store before it (-1: none)

\* hist after the register access op of addr
AccessHistory(op, addr) ==
    [hist EXCEPT
       !.accesses = @ + 1,
       !.toggle = IF @ < 0 THEN @
                  ELSE IF op = "write" /\ addr \in {8197, 8198} THEN 1 - @
                  ELSE IF op = "read" /\ addr = 8194 THEN 0
                  ELSE IF op = "reset_2C02" THEN 0
                  ELSE @,
       !.last = IF hist.toggle < 0 THEN @ ELSE [op |-> op, addr |-> addr, w |-> ppu.w],
       !.before = IF hist.toggle < 0 THEN @ ELSE hist.last]

NoHistory == [ppu_clocks |-> 0, cpu_clocks |-> 0, dots |-> 0, returns |-> 0,
              frame_len |-> -1, since_nmi |-> -1, nmi_gap |-> -1,
              accesses |-> 0, inst_len |-> 0, inst_calls |-> 0,
              done_len |-> 0, done_calls |-> 0, call |-> NoCall, start |-> -1,
              old_nmi |-> 0, old_PC |-> 1024, nmis |-> 0, irqs |-> 0,
              instructions |-> 0, toggle |-> -1, last |-> NoAccess,
              before |-> NoAccess, row_writes |-> -1, row_on |-> TRUE,
              row_last |-> -1, row_prev |-> -1]

\* the memory image: every cell holds b, but for the program loaded at pc
LoadImage(b, pc, prog) ==
    [image |-> b,
     cells |-> [a \in {x \in pc .. (pc + Len(prog) - 1) : prog[x - pc + 1] # b}
                  |-> prog[a - pc + 1]]]

\* NESInit: both devices powered on, the clock at 0
InitNes(images, progs, pcs, vs, xs, shs) ==
    /\ \E v0 \in vs, t0 \in vs, x0 \in xs, sh \in shs :
          ppu = power_on_2C02(RawPpu(v0, t0, x0, sh))
    /\ vram = << >>
    /\ pixel = NoPixel
    /\ \E pc \in pcs, b \in images, prog \in progs :
          /\ cpu = power_on(RawCpu(pc, 0, 0))
          /\ mem = power_on_bus(LoadImage(b, pc, prog))
    /\ remaining = 0
    /\ system_clock = 0
    /\ mode = "idle"
    /\ tick_log = << >>
    /\ ev = NoEvent(ppu)
    /\ ret = 0
    /\ hist = NoHistory

(***************************************************************************)
(* One master tick, as each of the three driver loops performs it:         *)
(* system_clock++, clock_2C02 (which may call NMI on the CPU), then        *)
(* clock_6502 when system_clock % 3 == 0.                                  *)
(***************************************************************************)
\* a CPU clocked every fourth tick
CpuClockDue_mut(sc) == sc % 4 = 0

CpuClockDue(sc) == sc % 3 = 0

TickResult(g) ==
    LET sc == system_clock + 1
        nmi == RaisesNMI(ppu)
        c0 == IF nmi THEN NMI(cpu, mem, remaining)
              ELSE [s |-> cpu, m |-> mem, rem |-> remaining]
        due == CpuClockDue(sc)
        c1 == IF due THEN clock(c0.s, c0.m, c0.rem, g)
              ELSE [s |-> c0.s, m |-> c0.m, rem |-> c0.rem, complete |-> FALSE,
                    len |-> 0]
    IN  [sc |-> sc, ppu |-> clock_2C02(ppu, vram), pixel |-> PixelStore(ppu, vram),
         nmi |-> nmi, present |-> AtVBlankStart(ppu), due |-> due,
         fetch |-> due /\ c0.rem = 0, c |-> c1,
         log |-> IF due THEN <<"ppu", "cpu">> ELSE <<"ppu">>]

\* the indeterminate values this tick can consume
TickGarbage ==
    LET nmi == RaisesNMI(ppu)
        c0 == IF nmi THEN NMI(cpu, mem, remaining)
              ELSE [s |-> cpu, m |-> mem, rem |-> remaining]
    IN  IF CpuClockDue(system_clock + 1) /\ c0.rem = 0 /\ IsNoReturn(c0.s, c0.m)
        THEN Garbage ELSE {0}

\* the observation counters after a tick; returned: clock_nes_frame returns
TickHistory(r, returned) ==
    [hist EXCEPT
       !.ppu_clocks = @ + 1,
       !.cpu_clocks = IF r.due THEN @ + 1 ELSE @,
       !.dots = IF returned THEN 0 ELSE @ + 1,
       !.returns = IF returned THEN @ + 1 ELSE @,
       !.frame_len = IF returned /\ hist.returns > 0 THEN hist.dots + 1 ELSE @,
       !.since_nmi = IF r.nmi THEN 0 ELSE IF @ >= 0 THEN @ + 1 ELSE @,
       !.nmi_gap = IF r.nmi /\ hist.since_nmi >= 0 THEN hist.since_nmi + 1 ELSE @,
       !.inst_len = IF r.fetch THEN r.c.len ELSE @,
       !.inst_calls = IF r.fetch THEN 1 ELSE IF r.due THEN @ + 1 ELSE @,
       !.done_len = IF r.fetch THEN hist.inst_len ELSE @,
       !.done_calls = IF r.fetch THEN hist.inst_calls ELSE @,
       !.row_writes = IF @ < 0 THEN @
                      ELSE (IF ppu.cycles = 0 THEN 0 ELSE @)
                              + (IF r.pixel # NoPixel THEN 1 ELSE 0),
       !.row_on = IF hist.row_writes < 0 THEN @
                  ELSE (ppu.cycles = 0 \/ @) /\ MASK_b(ppu.PPUMASK) = 1,
       !.row_last = IF hist.row_writes < 0 THEN @
                    ELSE IF ppu.cycles = 0 THEN -1
                    ELSE IF r.pixel # NoPixel THEN r.pixel[1] ELSE @,
       !.row_prev = IF hist.row_writes < 0 THEN @
                    ELSE IF ppu.cycles = 0 THEN -1
                    ELSE IF r.pixel # NoPixel THEN hist.row_last ELSE @]

Tick(r, op, mode1, returned) ==
    /\ system_clock' = r.sc
    /\ ppu' = r.ppu
    /\ pixel' = r.pixel
    /\ cpu' = r.c.s
    /\ mem' = r.c.m
    /\ remaining' = r.c.rem
    /\ tick_log' = r.log
    /\ ev' = [op |-> op, addr |-> 0, data |-> 0, nmi |-> r.nmi,
              present |-> r.present,
              nmi_rem |-> IF r.nmi THEN remaining ELSE -1,
              cpu |-> IF r.fetch THEN "fetch" ELSE IF r.due THEN "count" ELSE "none",
              quiet |-> (r.c.s = cpu /\ r.c.m = mem),
              pre |-> ppu, wr |-> NoWrite, s |-> RawCpu(0, 0, 0),
              irq |-> FALSE, old |-> 0]
    /\ mode' = mode1
    /\ hist' = TickHistory(r, returned)
    /\ UNCHANGED <<vram, ret>>

\* Emulate one master clock cycle
clock_nes_cycle(maxClock) ==
    /\ mode = "idle"
    /\ system_clock < maxClock
    /\ \E g \in TickGarbage :
          \E r \in {TickResult(g)} :
          Tick(r, "cycle", "idle", FALSE)

\* Emulate one cpu instruction: one iteration of the while (true) loop
\* a loop that breaks at every CPU clock
InstructionDone_mut(r) == r.due

\* system_clock % 3 == 0 && clock_6502(&nes->cpu) == 0
InstructionDone(r) == r.due /\ r.c.complete

clock_nes_instruction(maxClock) ==
    /\ mode \in {"idle", "instruction"}
    /\ system_clock < maxClock
    /\ \E g \in TickGarbage :
          \E r \in {TickResult(g)} :
          Tick(r, "instruction",
               IF InstructionDone(r) THEN "idle" ELSE "instruction", FALSE)

\* Emulate a whole frame: one iteration of the do-while loop
\* a frame loop that stops one dot late
FrameDone_mut(p) == p.scanline = VBlankLine /\ p.cycles = 1

FrameDone(p) == p.scanline = VBlankLine /\ p.cycles = 0

clock_nes_frame(maxClock) ==
    /\ mode \in {"idle", "frame"}
    /\ system_clock < maxClock
    /\ \E g \in TickGarbage :
          \E r \in {TickResult(g)} :
          Tick(r, "frame", IF FrameDone(r.ppu) THEN "idle" ELSE "frame",
               FrameDone(r.ppu))

(***************************************************************************)
(* Register accesses made by the harness between driver calls.             *)
(***************************************************************************)
WritePpu(addrs, bytes, maxAccess) ==
    /\ mode = "idle"
    /\ hist.accesses < maxAccess
    /\ \E addr \in addrs, data \in bytes :
          /\ ppu' = write_ppu(ppu, addr, data)
          /\ vram' = write_ppu_bus(ppu, vram, addr, data)
          /\ ev' = [NoEvent(ppu) EXCEPT !.op = "write", !.addr = addr,
                                         !.data = data]
          /\ hist' = AccessHistory("write", addr)
    /\ UNCHANGED <<pixel, cpu, remaining, mem, system_clock, mode, tick_log, ret>>

ReadPpu(addrs, maxAccess) ==
    /\ mode = "idle"
    /\ hist.accesses < maxAccess
    /\ \E addr \in addrs :
          /\ ppu' = read_ppu(ppu, vram, addr)
          /\ ret' = read_ppu_value(ppu, vram, addr)
          /\ ev' = [NoEvent(ppu) EXCEPT !.op = "read", !.addr = addr]
          /\ hist' = AccessHistory("read", addr)
    /\ UNCHANGED <<vram, pixel, cpu, remaining, mem, system_clock, mode, tick_log>>

(***************************************************************************)
(* The CPU clocked alone, as the test harness does:                        *)
(* while (clock_6502(&nes.cpu) != 0);                                      *)
(***************************************************************************)
CpuClock(maxCpuClocks) ==
    /\ hist.cpu_clocks < maxCpuClocks
    /\ \E g \in (IF remaining = 0 /\ IsNoReturn(cpu, mem) THEN Garbage ELSE {0}) :
          LET c == clock(cpu, mem, remaining, g) IN
          /\ cpu' = c.s
          /\ mem' = c.m
          /\ remaining' = c.rem
          /\ ev' = [NoEvent(ppu) EXCEPT
                      !.op = "clock",
                      !.cpu = IF remaining = 0 THEN "fetch" ELSE "count",
                      !.addr = cpu.PC,
                      !.data = IF remaining = 0 THEN bus_read(mem, cpu.PC) ELSE 0,
                      !.quiet = (c.s = cpu /\ c.m = mem),
                      !.s = cpu]
          /\ hist' = [hist EXCEPT !.cpu_clocks = @ + 1,
                                  !.call = IF remaining = 0
                                              /\ Instruction(bus_read(mem, cpu.PC)).operation = "JSR"
                                           THEN [pc |-> cpu.PC, sp |-> cpu.SP]
                                           ELSE @,
                                  !.inst_len = IF remaining = 0 THEN c.len ELSE @,
                                  !.inst_calls = IF remaining = 0 THEN 1 ELSE @ + 1,
                                  !.done_len = IF remaining = 0 THEN hist.inst_len ELSE @,
                                  !.done_calls = IF remaining = 0 THEN hist.inst_calls ELSE @]
    /\ UNCHANGED <<ppu, vram, pixel, system_clock, mode, tick_log, ret>>

(***************************************************************************)
(* Inputs.                                                                 *)
(***************************************************************************)
\* register addresses and bytes written by the harness
RegAddrs == {8192, 8193, 8197, 8198, 8199}

RegBytes == {0, 165, 255}

ReadAddrs == {8194, 8199}

\* the PPUCTRL / PPUMASK writes of the frame-long runs: NMI enable and
\* background enable, set or clear
FrameAddrs == {8192, 8193}

FrameBytes == {0, 136}

\* the byte that sets PPUCTRL.V, or PPUMASK.b
FrameEnable == {136}

\* memory images: NOP (0xEA, 2 cycles) and the 3-cycle NOP 0x04
NesImages == {234, 4}

AllImages == 0 .. 255

\* programs placed at the initial PC
NoProgram == {<< >>}

\* LDX #$FF; LDA $00FF,X / LDY #$FF; LDA ($10),Y / SEC; BCS +1
CpuPrograms ==
    {<< >>, <<162, 255, 189, 255, 0>>, <<160, 255, 177, 16>>, <<56, 176, 1>>}

(***************************************************************************)
(* Specifications.                                                         *)
(*   Spec       the register protocol: register accesses between driver    *)
(*              calls, a few master ticks                                  *)
(*   SpecNes    the three driver primitives over the first MaxClock ticks  *)
(*   SpecFrame  whole frames: clock_nes_frame called again and again over  *)
(*              the first MaxFrameClock ticks, with register accesses     *)
(*              between the calls                                          *)
(*   SpecCpu    the CPU clocked alone over every memory image              *)
(***************************************************************************)
Init == InitNes({234}, NoProgram, {1024}, {0, 32767}, {5}, {0})

Next ==
    \/ WritePpu(RegAddrs, RegBytes, MaxAccess)
    \/ ReadPpu(ReadAddrs, MaxAccess)
    \/ clock_nes_cycle(1)

Spec == Init /\ [][Next]_vars

InitTicks == InitNes(NesImages, NoProgram, {1024}, {0}, {0}, {0, 65535})

NextNes ==
    \/ clock_nes_cycle(MaxClock)
    \/ clock_nes_instruction(MaxClock)
    \/ clock_nes_frame(MaxClock)
    \/ WritePpu(FrameAddrs, FrameBytes, MaxAccess)
    \/ ReadPpu({8194}, MaxAccess)

SpecNes == InitTicks /\ [][NextNes]_vars

InitFrame == InitNes({234}, NoProgram, {1024}, {0}, {0}, {0})

NextFrame ==
    \/ clock_nes_frame(MaxFrameClock)
    \/ WritePpu(FrameAddrs, FrameEnable, MaxFrameAccess)
    \/ ReadPpu({8194}, MaxFrameAccess)

SpecFrame == InitFrame /\ [][NextFrame]_vars

InitCpu == InitNes(AllImages, CpuPrograms, {1024, 33000}, {0}, {0}, {0})

NextCpu == CpuClock(MaxCpuClocks)

SpecCpu == InitCpu /\ [][NextCpu]_vars

(***************************************************************************)
(* Properties.                                                             *)
(***************************************************************************)
\* the last step was a master tick of one of the three driver loops
IsTick == ev.op \in {"cycle", "instruction", "frame"}

\* the last step was a write of PPU register addr / a read of it
IsWrite(addr) == ev.op = "write" /\ ev.addr = addr

IsRead(addr) == ev.op = "read" /\ ev.addr = addr

\* the PPU clock of the last tick ran at (scanline, dot)
ClockedAt(scanline, dot) ==
    IsTick /\ ev.pre.scanline = scanline /\ ev.pre.cycles = dot

\* C1: whatever the driver calls made from system_clock = 0, after n master
\* ticks the PPU has been clocked n times and the CPU floor(n / 3) times,
\* and each tick clocks the PPU first and then, only when system_clock is a
\* multiple of 3, the CPU
C1_TickOrder ==
    /\ hist.ppu_clocks = system_clock
    /\ hist.cpu_clocks = system_clock \div 3
    /\ system_clock > 0 =>
          tick_log = IF system_clock % 3 = 0 THEN <<"ppu", "cpu">> ELSE <<"ppu">>
    /\ IsTick => (ev.cpu # "none" <=> system_clock % 3 = 0)

C1_Witness ==
    /\ system_clock = 12
    /\ hist.ppu_clocks = 12
    /\ hist.cpu_clocks = 4
    /\ tick_log = <<"ppu", "cpu">>
    /\ ev.op = "instruction"

\* C2: every call of clock_nes_frame returns with the PPU at scanline 241,
\* dot 0, within one frame of dots, and between two consecutive returns
\* exactly 341 x 262 = 89342 dots elapse, whatever registers were written
C2_FrameLength ==
    /\ (mode = "idle" /\ hist.returns > 0) =>
          (ppu.scanline = 241 /\ ppu.cycles = 0)
    /\ mode = "frame" => hist.dots < 341 * 262
    /\ hist.returns >= 2 => hist.frame_len = 341 * 262

C2_Witness ==
    /\ mode = "idle"
    /\ hist.returns = 2
    /\ hist.frame_len = 89342
    /\ hist.accesses = 1
    /\ MASK_b(ppu.PPUMASK) = 1

\* C3: cycles stays in [0, 340] and scanline in [-1, 260]; a PPU clock at
\* dot 340 sets cycles to 0 and steps scanline, 260 being followed by -1;
\* evenframe toggles at that wrap and on no other clock or register access
C3_DotCounters ==
    /\ ppu.cycles \in 0 .. 340
    /\ ppu.scanline \in -1 .. 260
    /\ (IsTick /\ ev.pre.cycles = 340) =>
          /\ ppu.cycles = 0
          /\ ppu.scanline = IF ev.pre.scanline = 260 THEN -1
                            ELSE ev.pre.scanline + 1
    /\ IsTick =>
          (ppu.evenframe # ev.pre.evenframe <=>
              (ev.pre.cycles = 340 /\ ev.pre.scanline = 260))
    /\ ~IsTick =>
          /\ ppu.cycles = ev.pre.cycles
          /\ ppu.scanline = ev.pre.scanline
          /\ ppu.evenframe = ev.pre.evenframe

C3_Witness ==
    /\ ClockedAt(260, 340)
    /\ ppu.scanline = -1
    /\ ppu.cycles = 0
    /\ ppu.evenframe = 1
    /\ MASK_b(ppu.PPUMASK) = 1

\* C4: the PPU clock at scanline 241, dot 1 sets PPUSTATUS.V, presents the
\* frame, and raises NMI exactly when PPUCTRL.V is set at that dot; no other
\* PPU clock raises NMI, so two NMIs are at least a frame apart
C4_VBlankStart ==
    /\ ClockedAt(241, 1) =>
          /\ STATUS_V(ppu.PPUSTATUS) = 1
          /\ ev.present
          /\ ev.nmi <=> CTRL_V(ev.pre.PPUCTRL) = 1
    /\ (IsTick /\ ~ClockedAt(241, 1)) => ~ev.nmi
    /\ ~IsTick => ~ev.nmi
    /\ hist.nmi_gap = -1 \/ hist.nmi_gap >= 341 * 262

C4_Witness ==
    /\ ClockedAt(241, 1)
    /\ ev.nmi
    /\ hist.nmi_gap = 89342
    /\ CTRL_V(ppu.PPUCTRL) = 1
    /\ STATUS_V(ppu.PPUSTATUS) = 1

\* C5: the PPU clock at the pre-render line, dot 1, clears PPUSTATUS.V
\* whether or not PPUMASK.b is set, so V is 0 on the visible lines
C5_PreRenderClearsV ==
    /\ ClockedAt(-1, 1) => STATUS_V(ppu.PPUSTATUS) = 0
    /\ (IsTick /\ ppu.scanline \in 0 .. 239) => STATUS_V(ppu.PPUSTATUS) = 0

\* C6: the NMI raised at VBlank is serviced only at an instruction
\* boundary: PC and status are pushed and PC loaded from 0xFFFA/B only when
\* the CPU's cycles_remaining is 0
C6_NmiAtBoundary == ev.nmi => ev.nmi_rem = 0

\* C7: an instruction of n base cycles whose operation returns e extra
\* cycles occupies exactly n + e consecutive CPU clock calls; all but the
\* first only decrement cycles_remaining, changing no register or memory,
\* and cycles_remaining never goes below 0
C7_InstructionCycles ==
    /\ remaining >= 0
    /\ ev.op = "clock" =>
          /\ remaining = hist.inst_len - hist.inst_calls
          /\ hist.inst_calls \in 1 .. hist.inst_len
          /\ ev.cpu = "fetch" <=> hist.inst_calls = 1
          /\ ev.cpu = "count" => ev.quiet
          /\ hist.done_calls = hist.done_len

C7_Witness ==
    /\ ev.cpu = "count"
    /\ hist.inst_len = 5
    /\ hist.inst_calls = 5
    /\ remaining = 0
    /\ hist.done_len = 2
    /\ cpu.X = 255
    /\ cpu.A = bus_read(mem, 510)

\* C8: a read of 0x2002 returns PPUSTATUS as it was before the read, leaves
\* PPUSTATUS.V = 0 and w = 0, and changes nothing else of the PPU
C8_ReadStatus ==
    IsRead(8194) =>
       /\ ret = ev.pre.PPUSTATUS
       /\ STATUS_V(ppu.PPUSTATUS) = 0
       /\ ppu.PPUSTATUS % 128 = ev.pre.PPUSTATUS % 128
       /\ ppu.w = 0
       /\ [ppu EXCEPT !.PPUSTATUS = 0, !.w = 0]
             = [ev.pre EXCEPT !.PPUSTATUS = 0, !.w = 0]

C8_Witness ==
    /\ IsRead(8194)
    /\ ev.pre.w = 1
    /\ STATUS_V(ev.pre.PPUSTATUS) = 1
    /\ ret = 165
    /\ ppu.PPUSTATUS = 37
    /\ ppu.w = 0

\* C9: a write of b to 0x2006 with w = 0 sets bits 8-13 of t to b & 0x3F and
\* bit 14 to 0, keeps bits 0-7 of t and all of v, and sets w = 1; the write
\* of c that follows sets bits 0-7 of t to c, then v = t and w = 0
C9_WriteAddr ==
    IsWrite(8198) =>
       IF ev.pre.w = 0
       THEN /\ (ppu.t \div 256) % 64 = ev.data % 64
            /\ (ppu.t \div 16384) % 2 = 0
            /\ ppu.t % 256 = ev.pre.t % 256
            /\ ppu.v = ev.pre.v
            /\ ppu.w = 1
       ELSE /\ ppu.t % 256 = ev.data
            /\ ppu.t \div 256 = ev.pre.t \div 256
            /\ ppu.v = ppu.t
            /\ ppu.w = 0

C9_Witness ==
    /\ IsWrite(8198)
    /\ ev.pre.w = 1
    /\ ev.pre.t = 16383
    /\ ev.pre.v = 32767
    /\ ev.data = 165
    /\ ppu.v = 16293
    /\ ppu.w = 0

\* C10: a write of d to 0x2005 with w = 0 sets bits 0-4 of t to d >> 3 and x
\* to d & 7 and no other bit of t; with w = 1 it sets bits 5-9 of t to
\* d >> 3 and bits 12-14 to d & 7 and neither x nor another bit of t; both
\* toggle w and leave v unchanged
C10_WriteScroll ==
    IsWrite(8197) =>
       /\ ppu.v = ev.pre.v
       /\ ppu.w = 1 - ev.pre.w
       /\ IF ev.pre.w = 0
          THEN /\ ppu.t % 32 = ev.data \div 8
               /\ ppu.x = ev.data % 8
               /\ ppu.t \div 32 = ev.pre.t \div 32
          ELSE /\ (ppu.t \div 32) % 32 = ev.data \div 8
               /\ (ppu.t \div 4096) % 8 = ev.data % 8
               /\ ppu.x = ev.pre.x
               /\ ppu.t % 32 = ev.pre.t % 32
               /\ (ppu.t \div 1024) % 4 = (ev.pre.t \div 1024) % 4
               /\ ppu.t \div 32768 = ev.pre.t \div 32768

C10_Witness ==
    /\ IsWrite(8197)
    /\ ev.pre.w = 1
    /\ ev.data = 165
    /\ ev.pre.x = 7
    /\ ppu.x = 7
    /\ ppu.t = 24223
    /\ ppu.w = 0

\* C11: a write of d to 0x2000 leaves PPUCTRL = d and bits 10-11 of t equal
\* to bits 0-1 of d, and changes no other bit of t and nothing of v, x, w
C11_WriteCtrl ==
    IsWrite(8192) =>
       /\ ppu.PPUCTRL = ev.data
       /\ (ppu.t \div 1024) % 4 = ev.data % 4
       /\ ppu.t % 1024 = ev.pre.t % 1024
       /\ ppu.t \div 4096 = ev.pre.t \div 4096
       /\ ppu.v = ev.pre.v
       /\ ppu.x = ev.pre.x
       /\ ppu.w = ev.pre.w

C11_Witness ==
    /\ IsWrite(8192)
    /\ ev.data = 165
    /\ ev.pre.w = 1
    /\ ev.pre.t = 32767
    /\ ppu.t = 30719
    /\ ppu.PPUCTRL = 165

(***************************************************************************)
(* SpecData: the PPUADDR / PPUDATA protocol from power-on with v = t = 0,  *)
(* as a program drives it: MaxDataAccess register accesses.                *)
(***************************************************************************)
MaxDataAccess == 6

DataAddrs == {8192, 8197, 8198, 8199}

DataBytes == {0, 255}

InitData == InitNes({234}, NoProgram, {1024}, {0}, {0}, {0})

NextData ==
    \/ WritePpu(DataAddrs, DataBytes, MaxDataAccess)
    \/ ReadPpu(ReadAddrs, MaxDataAccess)

SpecData == InitData /\ [][NextData]_vars

\* C12: every read of 0x2007 advances v by 1 when PPUCTRL.I = 0 and by 32
\* when PPUCTRL.I = 1; below 0x3F00 it returns the buffered byte and
\* refills the buffer with the byte at v, from 0x3F00 on it returns the
\* byte at v and refills the buffer with the mirrored nametable byte
C12_ReadData ==
    IsRead(8199) =>
       /\ ppu.v = ev.pre.v + (IF (ev.pre.PPUCTRL \div 4) % 2 = 1 THEN 32 ELSE 1)
       /\ IF ev.pre.v < 16128
          THEN /\ ret = ev.pre.PPUDATA
               /\ ppu.PPUDATA = ppu_bus_read(vram, ev.pre.v)
          ELSE /\ ret = ppu_bus_read(vram, ev.pre.v)
               /\ ppu.PPUDATA = ppu_bus_read(vram, 8192 + (ev.pre.v % 1024))

\* C13: from power-on with v = t = 0, v and t never exceed 0x7FFF, x never
\* exceeds 7 and w is 0 or 1
C13_RegisterWidths ==
    /\ ppu.v \in 0 .. 32767
    /\ ppu.t \in 0 .. 32767
    /\ ppu.x \in 0 .. 7
    /\ ppu.w \in {0, 1}


\* C14: in every CPU state reached from power_on by executing instructions,
\* PLP and RTI pulling arbitrary bytes included, bit 5 of the status
\* register is 1
C14_StatusBit5 == Bit(cpu.status, FlagU) = 1


(***************************************************************************)
(* SpecBus: the console's CPU bus driven directly, as the harness does     *)
(* with cpu_bus_read(&nes.cpu_bus, ...), from power-on.                    *)
(***************************************************************************)
\* bus accesses explored by SpecBus
MaxBusAccess == 3

\* RAM and its mirrors, PPU registers and a mirror, APU and I/O, the
\* disabled range, the cartridge
BusAddrs == {0, 1, 2048, 2049, 4097, 8192, 8194, 8202, 16384, 16408, 32768}

BusBytes == {0, 165}

\* the byte every RAM cell holds at power-on
BusImages == {0, 7}

\* the values a read can hand back where none is defined
ReadGarbage(mm, addr) ==
    IF ReadDefined(addr) THEN {0}
    ELSE IF addr < 8192 THEN Garbage \cup {bus_read(mm, RamIndex(addr))}
    ELSE Garbage

CpuBusWrite(addrs, bytes, maxAccess) ==
    /\ hist.accesses < maxAccess
    /\ \E addr \in addrs, data \in bytes :
          \E g \in (IF addr \in 8192 .. 16383 THEN Garbage ELSE {0}) :
             LET b == cpu_bus_write(mem, ppu, addr, data, g) IN
             /\ mem' = b.memory
             /\ ppu' = b.ppu
             /\ ev' = [NoEvent(ppu) EXCEPT
                         !.op = "bus_write", !.addr = addr, !.data = data,
                         !.wr = [addr |-> addr, data |-> data, memory |-> mem]]
    /\ hist' = [hist EXCEPT !.accesses = @ + 1]
    /\ UNCHANGED <<vram, pixel, cpu, remaining, system_clock, mode, tick_log, ret>>

CpuBusRead(addrs, maxAccess) ==
    /\ hist.accesses < maxAccess
    /\ \E addr \in addrs :
          \E g \in ReadGarbage(mem, addr) :
             LET b == cpu_bus_read(mem, ppu, vram, addr, g) IN
             /\ ret' = b.ret
             /\ ppu' = b.ppu
             /\ ev' = [NoEvent(ppu) EXCEPT
                         !.op = "bus_read", !.addr = addr,
                         !.wr = IF ev.op = "bus_write" THEN ev.wr ELSE NoWrite]
    /\ hist' = [hist EXCEPT !.accesses = @ + 1]
    /\ UNCHANGED <<vram, pixel, cpu, remaining, mem, system_clock, mode, tick_log>>

InitBus == InitNes(BusImages, NoProgram, {1024}, {0}, {0}, {0})

NextBus ==
    \/ CpuBusWrite(BusAddrs, BusBytes, MaxBusAccess)
    \/ CpuBusRead(BusAddrs, MaxBusAccess)

SpecBus == InitBus /\ [][NextBus]_vars

\* the last step was a CPU bus write / read
IsBusWrite == ev.op = "bus_write"

IsBusRead == ev.op = "bus_read"

\* C15: for CPU bus addresses a, b below 0x2000, a read of b right after a
\* write of d to a returns d when a and b are congruent modulo 0x0800, and
\* otherwise the value b held before the write (what was in b's own cell,
\* b mod 0x0800): the RAM is 2048 independent cells mirrored four times
C15_RamMirror ==
    (IsBusRead /\ ev.addr < 8192 /\ ev.wr.addr \in 0 .. 8191) =>
       ret = IF ev.wr.addr % 2048 = ev.addr % 2048
             THEN ev.wr.data
             ELSE bus_read(ev.wr.memory, RamIndex(ev.addr))

\* C16: a CPU bus write at a in 0x2000..0x3FFF is a write of the byte to PPU
\* register 0x2000 | (a & 7), and a read at a is a read of that register
\* whose result is returned
C16_PpuDispatch ==
    /\ (IsBusWrite /\ ev.addr \in 8192 .. 16383) =>
          ppu = write_ppu(ev.pre, 8192 + (ev.addr % 8), ev.data)
    /\ (IsBusRead /\ ev.addr \in 8192 .. 16383) =>
          /\ ppu = read_ppu(ev.pre, vram, 8192 + (ev.addr % 8))
          /\ ret = read_ppu_value(ev.pre, vram, 8192 + (ev.addr % 8))

\* C17: a CPU bus read at an address nothing serves (0x4000..0x4017,
\* 0x4018..0x401F, a cartridge address the mapper does not claim) returns 0,
\* and a write there changes neither RAM nor PPU nor CPU state
C17_Unserved ==
    /\ (IsBusRead /\ ev.addr >= 16384) => (ret = 0 /\ ppu = ev.pre)
    /\ (IsBusWrite /\ ev.addr >= 16384) =>
          (mem = ev.wr.memory /\ ppu = ev.pre)


(***************************************************************************)
(* SpecReset: the CPU clocked alone, with the reset signal raised between  *)
(* clocks.                                                                 *)
(***************************************************************************)
\* resets explored by SpecReset
MaxReset == 2

Reset(maxReset) ==
    /\ hist.accesses < maxReset
    /\ cpu' = reset(cpu)
    /\ mem' = reset_bus(mem)
    /\ ev' = [NoEvent(ppu) EXCEPT !.op = "reset", !.s = cpu]
    /\ hist' = [hist EXCEPT !.accesses = @ + 1]
    /\ UNCHANGED <<ppu, vram, pixel, remaining, system_clock, mode, tick_log, ret>>

InitReset == InitNes(NesImages, CpuPrograms, {1024, 33000}, {0}, {0}, {0})

NextReset ==
    \/ CpuClock(MaxCpuClocks)
    \/ Reset(MaxReset)

SpecReset == InitReset /\ [][NextReset]_vars

\* the reset vector at 0xFFFC/0xFFFD, little-endian
ResetVector(mm) == bus_read(mm, 65533) * 256 + bus_read(mm, 65532)

\* C18: a CPU reset, from any state, decrements SP by 3 modulo 256, sets I,
\* loads PC from the reset vector at 0xFFFC/0xFFFD (little-endian) and leaves
\* A, X, Y and every other flag as they were
C18_Reset ==
    ev.op = "reset" =>
       /\ cpu.SP = (ev.s.SP + 253) % 256
       /\ Flag(cpu, FlagI) = 1
       /\ cpu.PC = ResetVector(mem)
       /\ cpu.A = ev.s.A /\ cpu.X = ev.s.X /\ cpu.Y = ev.s.Y
       /\ SetBit(cpu.status, FlagI, 0) = SetBit(ev.s.status, FlagI, 0)


\* master ticks until the CPU clock that fetches the next instruction: up to
\* the next multiple of 3, then three per cycle the CPU still has to count
TicksToFetch == (3 - (system_clock % 3)) + 3 * remaining

\* C19: every clock_nes_instruction call terminates, and it returns on
\* exactly the first master tick that is a multiple of 3 and on which the
\* CPU clock reports "instruction complete"; on every earlier tick of the
\* call the CPU was not clocked or was clocked mid-instruction.  The call
\* terminates because each tick it does not return on brings the fetch of
\* the next instruction one tick closer (an NMI entry aside, which adds its
\* 7 cycles once)
C19_InstructionReturn ==
    /\ [](ev.op = "instruction" =>
            (mode = "idle" <=> (system_clock % 3 = 0 /\ ev.cpu = "fetch")))
    /\ [][(ev'.op = "instruction" /\ mode' = "instruction" /\ ~ev'.nmi) =>
             (TicksToFetch' = TicksToFetch - 1 /\ TicksToFetch' > 0)]_vars

C19_Witness ==
    /\ ev.op = "instruction"
    /\ mode = "idle"
    /\ system_clock = 12
    /\ ev.cpu = "fetch"
    /\ hist.done_len = 3
    /\ hist.done_calls = 3
    /\ tick_log = <<"ppu", "cpu">>


\* the State2C02 without its dot counters and PPUSTATUS.V
RenderState(p) ==
    [p EXCEPT !.cycles = 0, !.scanline = 0, !.evenframe = 0,
              !.PPUSTATUS = SetBit(p.PPUSTATUS, 7, 0)]

\* v, t, x, w, the latches and the four shift registers
RenderRegs(p) ==
    <<p.v, p.t, p.x, p.w, p.name_tbl_byte, p.pa_latch_low, p.pa_latch_high,
      p.pt_latch_low, p.pt_latch_high, p.pt_shift_low, p.pt_shift_high,
      p.pa_shift_low, p.pa_shift_high>>

\* C20: while PPUMASK.b is clear a PPU clock changes nothing but cycles,
\* scanline, even_frame and PPUSTATUS.V, raises NMI and presents the frame
\* only at (241, 1) and stores no pixel; so as long as rendering has been
\* disabled, whole frames included, v, t, x, w, the latches and the four
\* shift registers hold the values they had at power-on and the framebuffer
\* is untouched
C20_RenderingDisabled ==
    /\ (IsTick /\ MASK_b(ev.pre.PPUMASK) = 0) =>
          /\ RenderState(ppu) = RenderState(ev.pre)
          /\ pixel = NoPixel
          /\ (ev.nmi \/ ev.present) => ClockedAt(VBlankLine, 1)
    /\ MASK_b(ppu.PPUMASK) = 0 =>
          /\ RenderRegs(ppu) = RenderRegs(power_on_2C02(RawPpu(0, 0, 0, 0)))
          /\ pixel = NoPixel
          /\ vram = << >>

C20_Witness ==
    /\ ev.op = "frame"
    /\ mode = "idle"
    /\ hist.returns = 2
    /\ hist.frame_len = DotsPerLine * (LastScanline + 1)
    /\ MASK_b(ppu.PPUMASK) = 0
    /\ CTRL_V(ppu.PPUCTRL) = 1
    /\ ppu.evenframe = 1


(***************************************************************************)
(* SpecJump: the CPU clocked alone over programs that transfer control:    *)
(* subroutine call and return, interrupt entry and return, jumps and       *)
(* branches, at addresses next to a page boundary and away from one.       *)
(***************************************************************************)
\* memory images: RTS, RTI, NOP and BRK in every cell
JumpImages == {96, 64, 234, 0}

\* JSR $0500 / JMP $0500 / JMP ($0500) / BRK / BCC +1 / BCC -4 / BCS +1
JumpPrograms ==
    {<<32, 0, 5>>, <<76, 0, 5>>, <<108, 0, 5>>, <<0>>, <<144, 1>>,
     <<144, 252>>, <<176, 1>>}

\* 0x03FD: the instruction's last byte, or the byte after a branch, is the
\* last of its page; 0x0400 and 0x80E8 are not
JumpPCs == {1021, 1024, 33000}

InitJump == InitNes(JumpImages, JumpPrograms, JumpPCs, {0}, {0}, {0})

NextJump == CpuClock(MaxCpuClocks)

SpecJump == InitJump /\ [][NextJump]_vars

\* the last step was a CPU clock that fetched and executed the operation
Executed(name) ==
    /\ ev.op = "clock"
    /\ ev.cpu = "fetch"
    /\ Instruction(ev.data).operation = name

\* C21: an RTS executed with the stack as a JSR at address P left it (SP two
\* below its value before the JSR, the two pushed bytes unmodified) sets PC
\* to P + 3 modulo 65536 and restores SP, whatever the low byte of the
\* pushed return address is
C21_JsrRts ==
    (/\ Executed("RTS")
     /\ hist.call.pc >= 0
     /\ ev.s.SP = (hist.call.sp + 254) % 256
     /\ bus_read(mem, 256 + hist.call.sp) = U16(hist.call.pc + 2) \div 256
     /\ bus_read(mem, 256 + ((hist.call.sp + 255) % 256)) = U16(hist.call.pc + 2) % 256)
    => (cpu.PC = U16(hist.call.pc + 3) /\ cpu.SP = hist.call.sp)


\* the byte the CPU before the last step finds n places above its SP
Pulled(n) == bus_read(mem, 256 + ((ev.s.SP + n) % 256))

\* C22: RTI sets the status register to the first byte pulled and PC to the
\* 16-bit value formed from the next two bytes pulled (low, then high), with
\* no increment, and increases SP by 3 modulo 256
C22_Rti ==
    Executed("RTI") =>
       /\ cpu.status = Pulled(1)
       /\ cpu.PC = Pulled(3) * 256 + Pulled(2)
       /\ cpu.SP = (ev.s.SP + 3) % 256

\* C23: after JMP in absolute mode (0x4C) with operand bytes lo, hi, PC is
\* (hi << 8) | lo whatever the memory holds at that target; after JMP in
\* indirect mode (0x6C), PC is the 16-bit word read at the pointer
\* (hi << 8) | lo
C23_Jmp ==
    LET s1 == [ev.s EXCEPT !.PC = U16(ev.s.PC + 1)]
        target == OperandWord(s1, mem)
    IN  /\ (Executed("JMP") /\ ev.data = 76) => cpu.PC = target
        /\ (Executed("JMP") /\ ev.data = 108) =>
              cpu.PC = bus_read(mem, U16(target + 1)) * 256 + bus_read(mem, target)

\* the eight conditional branches
Branches == {"BCC", "BCS", "BEQ", "BNE", "BMI", "BPL", "BVC", "BVS"}

\* does the branch, decided on the flags before it, go
BranchTaken(name, s) ==
    CASE name = "BCC" -> Flag(s, FlagC) = 0 [] name = "BCS" -> Flag(s, FlagC) = 1
      [] name = "BEQ" -> Flag(s, FlagZ) = 1 [] name = "BNE" -> Flag(s, FlagZ) = 0
      [] name = "BMI" -> Flag(s, FlagN) = 1 [] name = "BPL" -> Flag(s, FlagN) = 0
      [] name = "BVC" -> Flag(s, FlagV) = 0 [] name = "BVS" -> Flag(s, FlagV) = 1

\* C24: a conditional branch adds 0 cycles when not taken, 1 when taken to a
\* target in the 256-byte page of the PC after the operand fetch, 2 when
\* taken to a target in another page; when taken, PC becomes that PC plus
\* the signed 8-bit displacement modulo 65536, and otherwise stays
C24_Branch ==
    LET name == Instruction(ev.data).operation
        next == U16(ev.s.PC + 2)
        disp == bus_read(mem, U16(ev.s.PC + 1))
        target == U16(next + 65536 + Int8(disp))
    IN  (ev.op = "clock" /\ ev.cpu = "fetch" /\ name \in Branches) =>
           IF BranchTaken(name, ev.s)
           THEN /\ cpu.PC = target
                /\ hist.inst_len =
                      Instruction(ev.data).cycles
                      + (IF target \div 256 = next \div 256 THEN 1 ELSE 2)
           ELSE /\ cpu.PC = next
                /\ hist.inst_len = Instruction(ev.data).cycles


(***************************************************************************)
(* SpecAlu: the CPU clocked alone over the programs                        *)
(*    CLC or SEC; LDA #a; ADC #r or SBC #r                                 *)
(* for accumulators and operands around the sign and carry boundaries.     *)
(***************************************************************************)
AluBytes == {0, 1, 80, 127, 128, 176, 255}

AluPrograms ==
    {<<c, 169, a, op, r>> : c \in {24, 56}, a \in AluBytes, op \in {105, 233},
                            r \in AluBytes}

InitAlu == InitNes({234}, AluPrograms, {1024}, {0}, {0}, {0})

NextAlu == CpuClock(MaxCpuClocks)

SpecAlu == InitAlu /\ [][NextAlu]_vars

\* ((~(A ^ M)) & (A ^ R)) & 0x80 is non-zero
Overflow(A, M, R) == And16(And16(Not16(Xor16(A, M)), Xor16(A, R)), 128) # 0

\* the arithmetic flags C, Z, V, N of a status byte
AluFlags(status) ==
    <<Bit(status, FlagC), Bit(status, FlagZ), Bit(status, FlagV), Bit(status, FlagN)>>

\* C25: SBC with operand r leaves the accumulator and the C, Z, N and V
\* flags that ADC with operand r XOR 0xFF leaves from the same starting
\* state; and after either, V is 1 exactly when
\* ((~(A ^ M)) & (A ^ R)) & 0x80 is non-zero, for the accumulator A before,
\* the value M actually added (r for ADC, r XOR 0xFF for SBC) and the
\* result R
C25_SbcAdc ==
    LET r == bus_read(mem, U16(ev.s.PC + 1))
        M == IF Executed("SBC") THEN Xor16(r, 255) ELSE r
        R == ev.s.A + M + Flag(ev.s, FlagC)
        adc == ADC([ev.s EXCEPT !.operand = Xor16(r, 255)], FALSE, mem).s
    IN  /\ Executed("SBC") =>
              (cpu.A = adc.A /\ AluFlags(cpu.status) = AluFlags(adc.status))
        /\ (Executed("SBC") \/ Executed("ADC")) =>
              (Flag(cpu, FlagV) = 1 <=> Overflow(ev.s.A, M, R))


(***************************************************************************)
(* SpecScroll: coarseXinc and fineYinc applied again and again to v, from  *)
(* every combination of the field values at which they change course.      *)
(***************************************************************************)
\* increments applied in a row
MaxInc == 64

\* coarse X | coarse Y << 5 | nametable << 10 | fine Y << 12
ScrollVs ==
    {cx + 32 * cy + 1024 * nt + 4096 * fy :
        cx \in {0, 1, 30, 31}, cy \in {0, 28, 29, 30, 31}, nt \in 0 .. 3,
        fy \in {0, 6, 7}}

InitScroll ==
    /\ \E v0 \in ScrollVs : ppu = power_on_2C02(RawPpu(v0, 0, 0, 0))
    /\ vram = << >>
    /\ pixel = NoPixel
    /\ cpu = power_on(RawCpu(1024, 0, 0))
    /\ mem = power_on_bus(LoadImage(234, 1024, << >>))
    /\ remaining = 0
    /\ system_clock = 0
    /\ mode = "idle"
    /\ tick_log = << >>
    /\ ev = NoEvent(ppu)
    /\ ret = 0
    /\ hist = NoHistory

Increment(name, v1, maxInc) ==
    /\ mode \in {"idle", name}
    /\ hist.accesses < maxInc
    /\ ppu' = [ppu EXCEPT !.v = v1]
    /\ mode' = name
    /\ ev' = [NoEvent(ppu) EXCEPT !.op = name]
    /\ hist' = [hist EXCEPT !.accesses = @ + 1,
                            !.start = IF mode = "idle" THEN ppu.v ELSE @]
    /\ UNCHANGED <<vram, pixel, cpu, remaining, mem, system_clock, tick_log, ret>>

NextScroll ==
    \/ Increment("coarseXinc", coarseXinc(ppu.v), MaxInc)
    \/ Increment("fineYinc", fineYinc(ppu.v), MaxInc)

SpecScroll == InitScroll /\ [][NextScroll]_vars

\* the fields of v
CoarseX(v) == v % 32

CoarseY(v) == (v \div 32) % 32

FineY(v) == (v \div 4096) % 8

\* C26: for a 15-bit v, coarse-X increment changes only bits 0-4 and bit 10:
\* with coarse X = 31 it clears bits 0-4 and toggles bit 10, otherwise it
\* adds 1 to bits 0-4 and leaves bit 10 alone; applied 64 times it returns
\* the original v
C26_CoarseX ==
    LET v0 == ev.pre.v IN
    ev.op = "coarseXinc" =>
       /\ ppu.v = IF CoarseX(v0) = 31
                  THEN (v0 - 31) + (IF Bit(v0, 10) = 1 THEN -1024 ELSE 1024)
                  ELSE v0 + 1
       /\ ppu.v \div 2048 = v0 \div 2048
       /\ (ppu.v \div 32) % 32 = (v0 \div 32) % 32
       /\ hist.accesses = 64 => ppu.v = hist.start

C26_Witness ==
    /\ ev.op = "coarseXinc"
    /\ hist.accesses = 64
    /\ hist.start = 29695
    /\ ev.pre.v = 29694
    /\ ppu.v = 29695

\* C27: for a 15-bit v, fine-Y increment leaves bits 0-4 and bit 10 alone
\* and yields a 15-bit value: with fine Y < 7 it only adds 1 to fine Y;
\* otherwise it clears fine Y and, for coarse Y = 29, clears coarse Y and
\* toggles bit 11, for coarse Y = 31, clears coarse Y without toggling
\* bit 11, and in every other case adds 1 to coarse Y
C27_FineY ==
    LET v0 == ev.pre.v IN
    ev.op = "fineYinc" =>
       /\ ppu.v \in 0 .. 32767
       /\ CoarseX(ppu.v) = CoarseX(v0)
       /\ Bit(ppu.v, 10) = Bit(v0, 10)
       /\ IF FineY(v0) < 7
          THEN ppu.v = v0 + 4096
          ELSE /\ FineY(ppu.v) = 0
               /\ CoarseY(ppu.v) = IF CoarseY(v0) \in {29, 31} THEN 0
                                   ELSE CoarseY(v0) + 1
               /\ Bit(ppu.v, 11) = IF CoarseY(v0) = 29 THEN 1 - Bit(v0, 11)
                                   ELSE Bit(v0, 11)

C27_Witness ==
    /\ ev.op = "fineYinc"
    /\ ev.pre.v = 29600
    /\ ppu.v = 2048
    /\ hist.accesses = 8


(***************************************************************************)
(* SpecLine: the first pre-render line, clocked by clock_nes_frame from    *)
(* power-on with v and t at different values, background rendering         *)
(* switched on or left off before the first tick.                          *)
(***************************************************************************)
\* master ticks explored by SpecLine: the pre-render line up to dot 309
MaxLineClock == 310

LineVs == {0, 10922, 32767}

InitLine == InitNes({234}, NoProgram, {1024}, LineVs, {0}, {0})

NextLine ==
    \/ clock_nes_frame(MaxLineClock)
    \/ WritePpu({8193}, {8}, MaxFrameAccess)

SpecLine == InitLine /\ [][NextLine]_vars

\* C28: with background rendering enabled, after the PPU clock at each of
\* dots 280 to 304 of the pre-render line, every bit of v outside the mask
\* 0x041F (fine Y, coarse Y, the vertical nametable bit) equals that bit of
\* t, and coarse X and bit 10 of v are as before the clock; with rendering
\* disabled the clock leaves v alone
C28_VerticalCopy ==
    (IsTick /\ ev.pre.scanline = -1 /\ ev.pre.cycles \in 280 .. 304) =>
       IF MASK_b(ev.pre.PPUMASK) = 1
       THEN /\ And16(ppu.v, Not16(1055)) = And16(ppu.t, Not16(1055))
            /\ And16(ppu.v, 1055) = And16(ev.pre.v, 1055)
       ELSE ppu.v = ev.pre.v

C28_Witness ==
    /\ ClockedAt(-1, 280)
    /\ MASK_b(ev.pre.PPUMASK) = 1
    /\ ppu.t = 10922
    /\ ev.pre.v = 2058
    /\ ppu.v = 10922


(***************************************************************************)
(* SpecPalette: PPUADDR writes and PPUDATA reads from power-on, over a PPU *)
(* memory whose first two palette entries and the nametable byte under     *)
(* them differ.                                                            *)
(***************************************************************************)
\* register accesses explored by SpecPalette
MaxPaletteAccess == 5

\* palette entries 0x3F00 and 0x3F01, and the nametable byte at 0x2300
PaletteRam == [a \in {16128, 16129, 8960} |->
                 IF a = 16128 THEN 17 ELSE IF a = 16129 THEN 34 ELSE 51]

InitPalette ==
    /\ ppu = power_on_2C02(RawPpu(0, 0, 0, 0))
    /\ vram = PaletteRam
    /\ pixel = NoPixel
    /\ cpu = power_on(RawCpu(1024, 0, 0))
    /\ mem = power_on_bus(LoadImage(234, 1024, << >>))
    /\ remaining = 0
    /\ system_clock = 0
    /\ mode = "idle"
    /\ tick_log = << >>
    /\ ev = NoEvent(ppu)
    /\ ret = 0
    /\ hist = NoHistory

NextPalette ==
    \/ WritePpu({8192, 8198}, {0, 63}, MaxPaletteAccess)
    \/ ReadPpu({8199}, MaxPaletteAccess)

SpecPalette == InitPalette /\ [][NextPalette]_vars

\* the n-th access since power-on was a read of 0x2007 with PPUCTRL.I = 0
\* that found v at 0x3F00 + k: with four accesses this is the second read
\* after the writes of 0x3F and 0x00 to 0x2006, with three the first
PaletteRead(n, k) ==
    /\ IsRead(8199)
    /\ hist.accesses = n
    /\ CTRL_I(ev.pre.PPUCTRL) = 0
    /\ ev.pre.v = 16128 + k

\* C29: with PPUCTRL.I = 0 and w = 0, after writing 0x3F and then 0x00 to
\* 0x2006 and reading 0x2007 twice, the second read returns the palette
\* entry at 0x3F00 and has incremented v by 1
C29_PaletteSecondRead ==
    PaletteRead(4, 1) =>
       (ret = ppu_bus_read(vram, 16128) /\ ppu.v = ev.pre.v + 1)

\* C29, amended: the first of the two reads returns the palette entry at
\* 0x3F00 and the second the entry at 0x3F01 (palette reads are not
\* buffered); each read increments v by 1 and leaves the nametable byte
\* under the palette address it read (0x2300, 0x2301) in the buffer
C29_PaletteReads ==
    /\ PaletteRead(3, 0) =>
          /\ ret = ppu_bus_read(vram, 16128)
          /\ ppu.v = 16129
          /\ ppu.PPUDATA = ppu_bus_read(vram, 8960)
    /\ PaletteRead(4, 1) =>
          /\ ret = ppu_bus_read(vram, 16129)
          /\ ppu.v = 16130
          /\ ppu.PPUDATA = ppu_bus_read(vram, 8961)

C29_Witness ==
    /\ PaletteRead(4, 1)
    /\ ret = 34
    /\ ppu.v = 16130
    /\ ppu.w = 0


(***************************************************************************)
(* Run_6502_Interrupt_Test: the instruction loop of the interrupt test.    *)
(* The test image is a flat 64 KiB memory, so the bus is the BUS_TEST one. *)
(* The frame pacing (instructions_per_frame and the timer event that       *)
(* resets instructions_done) only delays the next pass and is left out.    *)
(***************************************************************************)
\* instructions explored by SpecInterrupt
MaxInstructions == 12

feedback_register_addr == 49148

\* while (clock_6502(&nes.cpu) != 0);  a call that finds remaining at n > 0
\* leaves the registers and the memory alone and remaining at n - 1
\* (ClockCount), so the loop is followed through remaining only
RECURSIVE RunInstruction(_, _, _, _)
RunInstruction(s, mm, rem, g) ==
    IF clock(s, mm, rem, g).complete
    THEN clock(s, mm, rem, g)
    ELSE RunInstruction(s, mm, rem - 1, g)

\* an NMI line that is level detected
NmiEdge_mut(I_src, old_nmi) == And16(I_src, 2) # 0

\* I_src & 0x02 && old_nmi == 0
NmiEdge(I_src, old_nmi) == And16(I_src, 2) # 0 /\ old_nmi = 0

\* I_src & 0x01
IrqLevel(I_src) == And16(I_src, 1) # 0

\* one pass: an instruction, the feedback register, NMI, IRQ, old_nmi, and
\* the halt test that leaves the loop
InterruptTest(maxInstructions) ==
    /\ mode = "idle"
    /\ hist.instructions < maxInstructions
    /\ \E g \in (IF IsNoReturn(cpu, mem) THEN Garbage ELSE {0}) :
       \E c \in {RunInstruction(cpu, mem, remaining, g)} :
       \E I_src \in {bus_read(c.m, feedback_register_addr)} :
       \E n \in {IF NmiEdge(I_src, hist.old_nmi)
                  THEN NMI(c.s, c.m, c.rem)
                  ELSE [s |-> c.s, m |-> c.m, rem |-> c.rem]} :
       \E i \in {IF IrqLevel(I_src) THEN IRQ(n.s, n.m, n.rem) ELSE n} :
          /\ cpu' = i.s
          /\ mem' = i.m
          /\ remaining' = i.rem
          /\ mode' = IF hist.old_PC = i.s.PC THEN "halted" ELSE "idle"
          /\ ev' = [NoEvent(ppu) EXCEPT
                      !.op = "interrupt_test", !.data = I_src,
                      !.nmi = NmiEdge(I_src, hist.old_nmi),
                      !.irq = IrqLevel(I_src),
                      !.old = hist.old_nmi, !.s = c.s]
          /\ hist' = [hist EXCEPT
                        !.old_nmi = And16(I_src, 2),
                        !.old_PC = i.s.PC,
                        !.nmis = IF NmiEdge(I_src, hist.old_nmi) THEN @ + 1 ELSE @,
                        !.irqs = IF IrqLevel(I_src) THEN @ + 1 ELSE @,
                        !.instructions = @ + 1]
    /\ UNCHANGED <<ppu, vram, pixel, system_clock, tick_log, ret>>

\* memory filled with BRK, RTI or NOP: the feedback register starts as
\* 0x00, 0x40 or 0xEA, and both interrupt vectors lead into the fill
InterruptImages == {0, 64, 234}

\* LDA #n, STA 0xBFFC for every setting of the two lines, the same for
\* bit 0 after CLI, and bit 1 raised, lowered and raised again (the byte
\* after the first STA is the one the RTI of the fill returns behind)
InterruptPrograms ==
    {<<169, n, 141, 252, 191>> : n \in 0 .. 3}
       \cup {<<88, 169, 1, 141, 252, 191>>,
             <<169, 2, 141, 252, 191, 234,
               169, 0, 141, 252, 191, 169, 2, 141, 252, 191>>}

InterruptPCs == {1024, 33000}

InitInterrupt == InitNes(InterruptImages, InterruptPrograms, InterruptPCs, {0}, {0}, {0})

NextInterrupt == InterruptTest(MaxInstructions)

SpecInterrupt == InitInterrupt /\ [][NextInterrupt]_vars

IsInterruptTest == ev.op = "interrupt_test"

\* the CPU after the interrupts the pass invoked, from the CPU at the
\* instruction boundary
AfterInterrupts ==
    IF ev.nmi THEN NMI(ev.s, mem, 0).s
    ELSE IF ev.irq THEN IRQ(ev.s, mem, 0).s
    ELSE ev.s

\* C30: in the interrupt test, after each completed instruction NMI is
\* invoked if and only if bit 1 of the feedback register at 0xBFFC is set
\* now and was clear at the previous instruction boundary (or there was
\* none), and IRQ is invoked if and only if bit 0 is set; so a bit 1 held
\* high across several instructions triggers exactly one NMI, while a bit
\* 0 held high triggers IRQ after every instruction
C30_InterruptLines ==
    /\ [](IsInterruptTest =>
            /\ ev.data = bus_read(mem, feedback_register_addr)
            /\ ev.nmi <=> (Bit(ev.data, 1) = 1 /\ ev.old = 0)
            /\ ev.irq <=> (Bit(ev.data, 0) = 1)
            /\ cpu = AfterInterrupts)
    /\ [][IsInterruptTest' =>
            /\ ev'.old = (IF IsInterruptTest THEN 2 * Bit(ev.data, 1) ELSE 0)
            /\ hist'.nmis = hist.nmis +
                  (IF Bit(ev'.data, 1) = 1 /\ ~(IsInterruptTest /\ Bit(ev.data, 1) = 1)
                   THEN 1 ELSE 0)
            /\ hist'.irqs = hist.irqs + Bit(ev'.data, 0)]_vars

C30_Witness ==
    /\ IsInterruptTest
    /\ ev.data = 3
    /\ ev.old = 2
    /\ ~ev.nmi
    /\ ev.irq
    /\ hist.nmis = 1
    /\ hist.irqs = 4
    /\ hist.instructions = 5


(***************************************************************************)
(* SpecToggle: every PPU register written and read, the PPU reset and      *)
(* clocked, from power-on, with the accesses followed in hist.             *)
(***************************************************************************)
\* register accesses and resets explored by SpecToggle
MaxToggleAccess == 3

\* master ticks explored by SpecToggle
MaxToggleClock == 1

\* the addresses write_ppu acts on, and one of those it has an empty case
\* for (OAMDATA)
ToggleWrites == {8192, 8193, 8196, 8197, 8198, 8199}

\* every address read_ppu has a case for
ToggleReads == {8194, 8196, 8199}

\* 0xFF turns rendering on when written to PPUMASK
ToggleBytes == {0, 255}

\* reset_2C02 between driver calls
ResetPpu(maxAccess) ==
    /\ mode = "idle"
    /\ hist.accesses < maxAccess
    /\ ppu' = reset_2C02(ppu)
    /\ ev' = [NoEvent(ppu) EXCEPT !.op = "reset_2C02"]
    /\ hist' = AccessHistory("reset_2C02", -1)
    /\ UNCHANGED <<vram, pixel, cpu, remaining, mem, system_clock, mode, tick_log, ret>>

InitToggle ==
    /\ \E v0 \in {0, 32767} : ppu = power_on_2C02(RawPpu(v0, v0, 0, 0))
    /\ vram = << >>
    /\ pixel = NoPixel
    /\ cpu = power_on(RawCpu(1024, 0, 0))
    /\ mem = power_on_bus(LoadImage(234, 1024, << >>))
    /\ remaining = 0
    /\ system_clock = 0
    /\ mode = "idle"
    /\ tick_log = << >>
    /\ ev = NoEvent(ppu)
    /\ ret = 0
    /\ hist = [NoHistory EXCEPT !.toggle = 0]

NextToggle ==
    \/ WritePpu(ToggleWrites, ToggleBytes, MaxToggleAccess)
    \/ ReadPpu(ToggleReads, MaxToggleAccess)
    \/ ResetPpu(MaxToggleAccess)
    \/ clock_nes_cycle(MaxToggleClock)

SpecToggle == InitToggle /\ [][NextToggle]_vars

\* the last step wrote PPUSCROLL or PPUADDR
IsToggleWrite == IsWrite(8197) \/ IsWrite(8198)

\* C31: the write toggle w is shared by PPUSCROLL and PPUADDR: w is the
\* parity of the writes to 0x2005 and 0x2006 since the most recent read of
\* 0x2002, reset or power-on; no other register access and no PPU clock
\* changes w; hence a write to 0x2006 that follows a first write to 0x2005
\* is handled as the second PPUADDR write: it sets the low byte of t and
\* copies t to v
C31_WriteToggle ==
    /\ ppu.w = hist.toggle
    /\ IsToggleWrite => ppu.w = 1 - ev.pre.w
    /\ (IsRead(8194) \/ ev.op = "reset_2C02") => ppu.w = 0
    /\ (/\ ev.op \in {"write", "read", "cycle"}
        /\ ~IsToggleWrite
        /\ ~IsRead(8194)) => ppu.w = ev.pre.w
    /\ (/\ IsWrite(8198)
        /\ hist.before = [op |-> "write", addr |-> 8197, w |-> 0]) =>
          /\ ppu.t = 256 * (ev.pre.t \div 256) + ev.data
          /\ ppu.v = ppu.t
          /\ ppu.w = 0

C31_Witness ==
    /\ IsWrite(8198)
    /\ ev.data = 255
    /\ hist.before = [op |-> "write", addr |-> 8197, w |-> 0]
    /\ hist.last = [op |-> "write", addr |-> 8198, w |-> 1]
    /\ ev.pre.v = 0
    /\ ppu.v = 255
    /\ hist.toggle = 0
    /\ system_clock = 1


(***************************************************************************)
(* SpecPixel: master ticks from power-on through the pre-render line and   *)
(* the first visible scanlines, with PPUMASK written before the first tick *)
(* or in the middle of a visible line, and the pixel stores of each line   *)
(* followed in hist.                                                       *)
(***************************************************************************)
\* master ticks explored by SpecPixel: the pre-render line, scanlines 0
\* and 1 and the first dots of scanline 2
MaxPixelClock == 1030

\* PPUMASK writes explored by SpecPixel
MaxPixelAccess == 2

\* the ticks after which PPUMASK is written: before the first tick, and
\* after dot 99 of scanline 0 and of scanline 1
PixelWriteTicks == {0, 441, 782}

\* PPUMASK.b clear / set
PixelBytes == {0, 8}

InitPixel ==
    /\ ppu = power_on_2C02(RawPpu(0, 0, 0, 0))
    /\ vram = << >>
    /\ pixel = NoPixel
    /\ cpu = power_on(RawCpu(1024, 0, 0))
    /\ mem = power_on_bus(LoadImage(234, 1024, << >>))
    /\ remaining = 0
    /\ system_clock = 0
    /\ mode = "idle"
    /\ tick_log = << >>
    /\ ev = NoEvent(ppu)
    /\ ret = 0
    /\ hist = [NoHistory EXCEPT !.row_writes = 0]

NextPixel ==
    \/ clock_nes_cycle(MaxPixelClock)
    \/ (system_clock \in PixelWriteTicks /\ WritePpu({8193}, PixelBytes, MaxPixelAccess))

SpecPixel == InitPixel /\ [][NextPixel]_vars

\* the last step was a tick whose PPU clock stored a pixel
IsPixelStore == IsTick /\ pixel # NoPixel

\* C32: whenever the PPU clock writes a pixel, the framebuffer index
\* scanline * 256 + cycles - 1 lies in 0 .. 256 * 240 - 1 and in the row of
\* the scanline being drawn, above the index of every earlier store of the
\* line; over a visible scanline s with rendering enabled throughout, the
\* clock at dot d = 1 .. 256 makes the d-th store of the line, to index
\* s * 256 + d - 1, so that after dot 256 each of the 256 indices of row s
\* was written exactly once, in increasing order
C32_PixelIndex ==
    /\ IsPixelStore =>
          /\ pixel[1] = ev.pre.scanline * 256 + ev.pre.cycles - 1
          /\ pixel[1] >= 0
          /\ pixel[1] <= 256 * 240 - 1
          /\ pixel[1] \div 256 = ev.pre.scanline
          /\ hist.row_last = pixel[1]
          /\ hist.row_prev < pixel[1]
          /\ hist.row_prev >= 0 => hist.row_prev \div 256 = ev.pre.scanline
          /\ hist.row_on =>
                /\ hist.row_writes = ev.pre.cycles
                /\ hist.row_prev = (IF ev.pre.cycles = 1 THEN -1 ELSE pixel[1] - 1)
    /\ (/\ IsTick
        /\ hist.row_on
        /\ ev.pre.scanline >= 0
        /\ ev.pre.scanline < 240
        /\ ev.pre.cycles >= 256) =>
          /\ hist.row_writes = 256
          /\ hist.row_last = ev.pre.scanline * 256 + 255

C32_Witness ==
    /\ IsTick
    /\ hist.row_on
    /\ ev.pre.scanline = 1
    /\ ev.pre.cycles = 340
    /\ hist.row_writes = 256
    /\ hist.row_last = 511
    /\ hist.row_prev = 510

====
